---- MODULE Spec2Model ----
(***************************************************************************)
(* Retry and recovery subsystem of the Altoro RPA pipeline:                *)
(*   - with_api_retry      (src/api/retry_handler.py)                      *)
(*   - AltoroAPI           (src/api/client.py)                             *)
(*   - with_session_retry  (src/core/session_handler.py)                   *)
(*   - AccountsPage.run    (src/web/pages/accounts_page.py), the method    *)
(*     the session wrapper is taken to wrap                                *)
(*   - _perform_reconciliation (src/orchestration/api_validate.py) with    *)
(*     the frame helpers of src/core/dataframe_helpers.py                  *)
(*                                                                         *)
(* Three specifications share the variables; each moves its own group and  *)
(* keeps the other two at rest:                                            *)
(*   SpecRetry    one call of a function wrapped by with_api_retry         *)
(*   Spec         one AltoroAPI instance and the calls made on it          *)
(*   SpecSession  one call of a method wrapped by with_session_retry       *)
(*                                                                         *)
(* An exception of the API layer is a record                               *)
(*   [type, status, seq, attempts, last_error, cause]                      *)
(* where seq > 0 numbers the call (or request) that raised it, seq = 0     *)
(* marks an exception built by a wrapper, and last_error / cause hold the  *)
(* seq of the exception they refer to (0 for None).  status and attempts   *)
(* are 0 when the attribute is None or absent.                             *)
(***************************************************************************)
EXTENDS Integers, Sequences, FiniteSets, TLC

VARIABLES
    \* ---- one call of a function wrapped by with_api_retry
    max_retries,      \* decorator argument
    attempt,          \* wrapper local
    last_exception,   \* wrapper local
    pc,               \* "loop" | "returned" | "raised" | "fallback"
    raised,           \* the exception that left the wrapper
    invocations,      \* calls of func made by the wrapper
    sleeps,           \* calls of time.sleep made by the wrapper
    last_wait,        \* argument of the last time.sleep, in 1/100 s
    seen              \* the <<type, status>> of the errors func has raised so far

VARIABLES
    \* ---- one AltoroAPI instance and the call in progress on it
    tok,              \* self._tok: NoToken or [value, exp]
    client,           \* self._client: "none" | "open"
    clients_made,     \* httpx.Client objects the instance has constructed
    clients_open,     \* those of them on which close() was not called
    session,          \* the with block: "new" | "entered" | "exited"
    now,              \* time.time(), in seconds
    op,               \* the public method called: "none", "authenticate" or a data operation
    cpc,              \* "idle" | "invoke" | "login" | "request" | "done"
    d_attempt,        \* attempt of the data operation's wrapper
    a_attempt,        \* attempt of authenticate's wrapper
    c_raised,         \* the exception that left the public method (NoExc: none)
    login_requests,   \* POST /api/login sent during the call
    data_requests,    \* data requests sent during the call
    c_sleeps,         \* time.sleep calls during the call
    chk,              \* the last _is_token_expired() of the call: [checked, held, left],
                      \* a token was held, and its exp - time.time() (0 if none)
    pass_logins,      \* login requests sent by the current pass of the data operation
    pass_data,        \* data requests sent by the current pass of the data operation
    auth_called,      \* authenticate() was called by the current pass of the data operation
    a_requests,       \* login requests of the current authenticate() call
    a_sleeps,         \* sleeps of the current authenticate() call
    a_seen,           \* <<type, status>> of the failures of the current authenticate() call
    a_stored          \* the current authenticate() call has assigned self._tok

VARIABLES
    \* ---- one call of a method wrapped by with_session_retry
    s_max_retries,    \* decorator argument
    has_context,      \* set_session_context() was called: self.login_page and
                      \* self.credentials exist
    s_attempt,        \* loop variable (0 before the first pass)
    s_last_exception, \* wrapper local
    s_pc,             \* "loop" | "probe" | "reauth" | "returned" | "raised"
    s_raised,         \* the exception that left the wrapper
    s_fallback,       \* the raise after the loop was executed
    s_invocations,    \* calls of func made by the wrapper
    s_probes,         \* calls of login_page.is_logged_out()
    s_reauths,        \* re-authentication sequences begun
    s_sleeps,         \* the arguments of time.sleep, in order, in seconds
    s_last_event,     \* what the wrapper did last: "none" | "invoke" | "probe" |
                      \* "recovered" | "reauth_failed" | "retry"
    s_clean           \* so far every call of func raised a session error and
                      \* every recovery succeeded

VARIABLES
    \* ---- the AccountsPage object whose run() the session wrapper calls
    accounts_summary,    \* self.accounts_summary: account_id -> balance data
    transaction_history, \* self.transaction_history: account_id -> transaction list
    page_epoch,          \* the login session whose data the pages show
    half_written,        \* some attempt of run() was cut between its two writes
    transfers            \* submissions of the transfer form by TransferPage

VARIABLES
    \* ---- one call of _perform_reconciliation
    api_accounts,     \* argument: accounts retrieved from the API
    api_transactions, \* argument: transactions retrieved from the API
    web_accounts,     \* argument: accounts scraped from the web, or None
    web_transactions, \* argument: transactions scraped from the web, or None
    report,           \* the report returned
    r_pc,             \* "start" | "returned" | "raised"
    r_error           \* the exception that left the call ("": none)

VARIABLES
    \* ---- one execution of run(): the six parts in sequence
    stage,            \* "part1" .. "part5" | "load" | "part6" | "end" | "raised"
    step,             \* the position inside the stage
    playwright,       \* the driver of the part's browser_session: "none" | "running" | "stopped"
    browsers_open,    \* browsers launched and not yet closed
    files_open,       \* pd.ExcelFile handles not yet closed
    write_failures,   \* the writes of the API validation sheet that raised
    todo,             \* part 6: what is left of accounts_list, then of accounts_df
    collected,        \* part 6: detailed_accounts, then all_transactions
    p6_exc,           \* the exception propagating in part 6 ("": none)
    sheet,            \* the API validation output: "none" | "reconciliation" | "unavailable"
    auth_failed_at,   \* the API call that raised APIAuthenticationError ("": none)
    record_failures   \* the failures confined to one record met so far

VARIABLES
    \* ---- one application of a pure function
    h_fn,             \* "backoff" | "normalize" | "unwrap" | "money" | "web_txn" | "api_txn"
    h_in,             \* its arguments
    h_out,            \* its result, once applied
    h_done            \* it was applied

retryVars == <<max_retries, attempt, last_exception, pc, raised, invocations,
               sleeps, last_wait, seen>>

callVars == <<op, cpc, d_attempt, a_attempt, c_raised, login_requests,
              data_requests, c_sleeps, chk, pass_logins, pass_data, auth_called,
              a_requests, a_sleeps, a_seen, a_stored>>

clientVars == <<tok, client, clients_made, clients_open, session, now, callVars>>

sessionVars == <<s_max_retries, has_context, s_attempt, s_last_exception, s_pc,
                 s_raised, s_fallback, s_invocations, s_probes, s_reauths,
                 s_sleeps, s_last_event, s_clean>>

pageVars == <<accounts_summary, transaction_history, page_epoch, half_written,
              transfers>>
reconVars == <<api_accounts, api_transactions, web_accounts, web_transactions,
               report, r_pc, r_error>>
pipeVars == <<stage, step, playwright, browsers_open, files_open, write_failures,
              todo,
              collected, p6_exc, sheet, auth_failed_at, record_failures>>
pureVars == <<h_fn, h_in, h_out, h_done>>
vars == <<retryVars, clientVars, sessionVars, pageVars, reconVars, pipeVars, pureVars>>

----------------------------------------------------------------------------
(* Bounds *)

MaxRetriesBound == 3
JitterGrid == 2
MaxNow == 3700
MaxSessionRetries == 3
MaxAccounts == 2
MaxAttempt == 8

----------------------------------------------------------------------------
(* Exceptions of the API layer *)

NoExc == [type |-> "None", status |-> 0, seq |-> 0, attempts |-> 0,
          last_error |-> 0, cause |-> 0]

\* An exception raised by the wrapped operation itself (httpx or other).
RawError(type, status, seq) ==
    [type |-> type, status |-> status, seq |-> seq, attempts |-> 0,
     last_error |-> 0, cause |-> 0]

\* httpx.HTTPStatusError; the statuses the server is taken to answer with.
FailStatuses == {400, 401, 403, 404, 500, 501, 503}
\* except (httpx.ConnectError, httpx.ConnectTimeout)
ConnectErrorTypes == {"ConnectError", "ConnectTimeout"}
\* except (httpx.ReadTimeout, httpx.WriteTimeout, httpx.PoolTimeout)
TimeoutErrorTypes == {"ReadTimeout", "WriteTimeout", "PoolTimeout"}
\* httpx.RequestError subclasses caught by none of the clauses above
GenericRequestErrorTypes == {"ReadError"}
\* except httpx.RequestError
RequestErrorTypes ==
    ConnectErrorTypes \cup TimeoutErrorTypes \cup GenericRequestErrorTypes

\* What one call of the wrapped operation can do: return, or raise one of
\* these; ValueError stands for the exceptions that are neither
\* HTTPStatusError nor RequestError.
FuncErrors ==
    {<<"HTTPStatusError", s>> : s \in FailStatuses}
    \cup {<<t, 0>> : t \in RequestErrorTypes \cup {"ValueError"}}

\* Keyword parameters the __init__ of each exception class takes.
AcceptedKeywords(cls) ==
    IF cls = "MaxRetriesExceededError"
    THEN {"attempts", "last_error", "status_code", "response_body"}
    ELSE {"status_code", "response_body"}

RequiredKeywords(cls) ==
    IF cls = "MaxRetriesExceededError" THEN {"attempts"} ELSE {}

\* `raise cls(message, **kw) from e`.  A keyword __init__ does not take makes
\* the constructor call itself raise TypeError, which then leaves the handler
\* in place of cls (with no __cause__).
NewException(cls, kw, e) ==
    IF /\ DOMAIN kw \subseteq AcceptedKeywords(cls)
       /\ RequiredKeywords(cls) \subseteq DOMAIN kw
    THEN [type |-> cls,
          status |-> IF "status_code" \in DOMAIN kw THEN kw.status_code ELSE 0,
          seq |-> 0,
          attempts |-> IF "attempts" \in DOMAIN kw THEN kw.attempts ELSE 0,
          last_error |-> IF "last_error" \in DOMAIN kw THEN kw.last_error ELSE 0,
          cause |-> e.seq]
    ELSE [type |-> "TypeError", status |-> 0, seq |-> 0, attempts |-> 0,
          last_error |-> 0, cause |-> 0]

----------------------------------------------------------------------------
(* with_api_retry *)

Min(a, b) == IF a <= b THEN a ELSE b

RECURSIVE Pow(_, _)
Pow(b, n) == IF n <= 0 THEN 1 ELSE b * Pow(b, n - 1)

\* backoff_factor of every use of with_api_retry, max_backoff of its
\* signature.
BACKOFF_FACTOR == 2
MAX_BACKOFF == 32

\* Mutant of CalculateBackoff: the exponential wait is not capped.
CalculateBackoff_NoCap(att, backoff_factor, max_backoff, jitter, u) ==
    LET backoff == 100 * Pow(backoff_factor, att - 1)
        jitter_amount == (backoff * u) \div (10 * JitterGrid)
    IN  IF jitter THEN backoff + jitter_amount ELSE backoff

\* _calculate_backoff, in 1/100 s.  u in 0..JitterGrid is the draw of
\* random.uniform(0, backoff * 0.1): the fraction u/JitterGrid of its range.
CalculateBackoff(att, backoff_factor, max_backoff, jitter, u) ==
    LET backoff == 100 * Min(Pow(backoff_factor, att - 1), max_backoff)
        jitter_amount == (backoff * u) \div (10 * JitterGrid)
    IN  IF jitter THEN backoff + jitter_amount ELSE backoff

RaiseNow(att, exc) ==
    [act |-> "raise", attempt |-> att, exc |-> exc, caught |-> TRUE]

RetryAfterSleep(att) ==
    [act |-> "sleep", attempt |-> att, exc |-> NoExc, caught |-> TRUE]

\* Mutant of RetryOrGiveUp: the exhaustion test is missing.
RetryOrGiveUp_NeverGiveUp(att, maxr, terminal) ==
    RetryAfterSleep(att)

\* Mutant of RetryOrGiveUp: gives up one attempt early.
RetryOrGiveUp_OffByOne(att, maxr, terminal) ==
    IF att >= maxr THEN RaiseNow(att, terminal) ELSE RetryAfterSleep(att)

\* A retryable class: give up with `terminal` once attempt > max_retries,
\* otherwise sleep and continue.
RetryOrGiveUp(att, maxr, terminal) ==
    IF att > maxr THEN RaiseNow(att, terminal) ELSE RetryAfterSleep(att)

\* The except clauses of wrapper, in order, for exception e raised by func
\* while the counter is att.
HandleException(e, att, maxr) ==
    IF e.type = "HTTPStatusError" THEN
        LET a == att + 1
            body == [status_code |-> e.status, response_body |-> "text"]
        IN  IF e.status = 401 THEN
                RaiseNow(a, NewException("APIAuthenticationError", body, e))
            ELSE IF e.status = 400 THEN
                RaiseNow(a, NewException("APIError", body, e))
            ELSE IF e.status = 501 THEN
                RaiseNow(a, NewException("APIError", body, e))
            ELSE IF e.status = 500 THEN
                RetryOrGiveUp(a, maxr,
                    NewException("MaxRetriesExceededError",
                        [attempts |-> a, last_error |-> e.seq,
                         status_code |-> e.status], e))
            ELSE
                RaiseNow(a, NewException("APIError", body, e))
    ELSE IF e.type \in ConnectErrorTypes THEN
        RetryOrGiveUp(att + 1, maxr,
            NewException("MaxRetriesExceededError",
                [attempts |-> att + 1, last_error |-> e.seq], e))
    ELSE IF e.type \in TimeoutErrorTypes THEN
        RetryOrGiveUp(att + 1, maxr,
            NewException("MaxRetriesExceededError",
                [attempts |-> att + 1, last_error |-> e.seq], e))
    ELSE IF e.type \in RequestErrorTypes THEN
        RetryOrGiveUp(att + 1, maxr,
            NewException("APIConnectionError",
                [attempts |-> att + 1, last_error |-> e.seq], e))
    ELSE
        \* except Exception: log and re-raise e itself
        [act |-> "raise", attempt |-> att, exc |-> e, caught |-> FALSE]

\* The wrapper before its first pass, for a decorator argument in range.
RetryInit ==
    /\ max_retries \in 0..MaxRetriesBound
    /\ attempt = 0
    /\ last_exception = NoExc
    /\ pc = "loop"
    /\ raised = NoExc
    /\ invocations = 0
    /\ sleeps = 0
    /\ last_wait = 0
    /\ seen = {}

\* No wrapped call is in progress (the other specifications).
RetryIdle ==
    /\ max_retries = 0
    /\ attempt = 0
    /\ last_exception = NoExc
    /\ pc = "loop"
    /\ raised = NoExc
    /\ invocations = 0
    /\ sleeps = 0
    /\ last_wait = 0
    /\ seen = {}

\* One pass of `while attempt <= max_retries` in which func returns.
InvokeReturns ==
    /\ pc = "loop"
    /\ attempt <= max_retries
    /\ invocations' = invocations + 1
    /\ pc' = "returned"
    /\ UNCHANGED <<max_retries, attempt, last_exception, raised, sleeps,
                   last_wait, seen>>
    /\ UNCHANGED <<clientVars, sessionVars, pageVars, reconVars, pipeVars, pureVars>>

\* One pass of the loop in which func raises: the handler raises, or sleeps
\* and goes back to the loop test.
InvokeRaises(err, u) ==
    /\ pc = "loop"
    /\ attempt <= max_retries
    /\ LET e == RawError(err[1], err[2], invocations + 1)
           h == HandleException(e, attempt, max_retries)
       IN  /\ invocations' = invocations + 1
           /\ seen' = seen \cup {err}
           /\ last_exception' = IF h.caught THEN e ELSE last_exception
           /\ attempt' = h.attempt
           /\ IF h.act = "raise"
              THEN /\ pc' = "raised"
                   /\ raised' = h.exc
                   /\ u = 0
                   /\ UNCHANGED <<sleeps, last_wait>>
              ELSE /\ sleeps' = sleeps + 1
                   /\ last_wait' = CalculateBackoff(h.attempt, BACKOFF_FACTOR,
                                                     MAX_BACKOFF, TRUE, u)
                   /\ pc' = IF h.attempt <= max_retries THEN "loop" ELSE "fallback"
                   /\ UNCHANGED raised
    /\ UNCHANGED max_retries
    /\ UNCHANGED <<clientVars, sessionVars, pageVars, reconVars, pipeVars, pureVars>>

RetryNext ==
    \/ InvokeReturns
    \/ \E err \in FuncErrors, u \in 0..JitterGrid : InvokeRaises(err, u)

----------------------------------------------------------------------------
(* AltoroAPI *)

TOKEN_REFRESH_BUFFER == 300
TOKEN_LIFETIME == 3600
AUTHENTICATE_MAX_RETRIES == 2
DATA_MAX_RETRIES == 3

NoToken == [value |-> <<>>, exp |-> 0]
NoCheck == [checked |-> FALSE, held |-> FALSE, left |-> 0]

DataOps == {"accounts", "get_account_details", "transactions"}

\* How a request of the client is taken to fail: one representative of each
\* row of the wrapper's table.
RequestFailures ==
    {<<"HTTPStatusError", 401>>, <<"HTTPStatusError", 403>>,
     <<"HTTPStatusError", 404>>, <<"HTTPStatusError", 500>>,
     <<"ConnectError", 0>>, <<"ReadError", 0>>, <<"ValueError", 0>>}

RECURSIVE WithoutBearer(_)
WithoutBearer(h) ==
    IF h = <<>> THEN <<>>
    ELSE IF Head(h) = "Bearer" THEN WithoutBearer(Tail(h))
    ELSE <<Head(h)>> \o WithoutBearer(Tail(h))

\* auth_header.replace("Bearer ", "") if auth_header.startswith("Bearer ")
\* else auth_header
TokenValue(h) == IF Head(h) = "Bearer" THEN WithoutBearer(h) ELSE h

\* Mutant of IsTokenExpired: a held token is never taken for usable.
IsTokenExpired_Always(t, time) ==
    TRUE

\* Mutant of IsTokenExpired: the refresh buffer is not applied.
IsTokenExpired_NoBuffer(t, time) ==
    IF t = NoToken THEN TRUE
    ELSE LET time_until_expiry == t.exp - time
         IN  time_until_expiry < 0

\* Mutant of IsTokenExpired: the comparison includes the boundary.
IsTokenExpired_Inclusive(t, time) ==
    IF t = NoToken THEN TRUE
    ELSE LET time_until_expiry == t.exp - time
         IN  time_until_expiry <= TOKEN_REFRESH_BUFFER

\* _is_token_expired
IsTokenExpired(t, time) ==
    IF t = NoToken THEN TRUE
    ELSE LET time_until_expiry == t.exp - time
         IN  time_until_expiry < TOKEN_REFRESH_BUFFER

\* Mutant of AuthenticateExcept: only 401 is taken as an authentication failure.
AuthenticateExcept_Only401(e) ==
    IF e.type = "HTTPStatusError" /\ e.status \in {401}
    THEN NewException("APIAuthenticationError",
                      [status_code |-> e.status, response_body |-> "text"], e)
    ELSE e

\* The except clause inside authenticate: 401 and 403 become
\* APIAuthenticationError, anything else is re-raised as it is.
AuthenticateExcept(e) ==
    IF e.type = "HTTPStatusError" /\ e.status \in {401, 403}
    THEN NewException("APIAuthenticationError",
                      [status_code |-> e.status, response_body |-> "text"], e)
    ELSE e

\* The instance after __init__, no call made yet.
ClientInit ==
    /\ tok = NoToken
    /\ client = "none"
    /\ clients_made = 0
    /\ clients_open = 0
    /\ session = "new"
    /\ now = 0
    /\ op = "none"
    /\ cpc = "idle"
    /\ d_attempt = 0
    /\ a_attempt = 0
    /\ c_raised = NoExc
    /\ login_requests = 0
    /\ data_requests = 0
    /\ c_sleeps = 0
    /\ chk = NoCheck
    /\ pass_logins = 0
    /\ pass_data = 0
    /\ auth_called = FALSE
    /\ a_requests = 0
    /\ a_sleeps = 0
    /\ a_seen = {}
    /\ a_stored = FALSE

\* __enter__
Enter ==
    /\ session = "new"
    /\ cpc = "idle"
    /\ session' = "entered"
    /\ client' = "open"
    /\ clients_made' = clients_made + 1
    /\ clients_open' = clients_open + 1
    /\ UNCHANGED <<tok, now, callVars>>
    /\ UNCHANGED <<retryVars, sessionVars, pageVars, reconVars, pipeVars, pureVars>>

\* Mutant of GetClient: a client is constructed for every request.
GetClient_PerCall ==
    /\ client' = "open"
    /\ clients_made' = clients_made + 1
    /\ clients_open' = clients_open + 1

\* _get_client: the client of the instance, constructed now if there is none.
GetClient ==
    /\ client' = "open"
    /\ clients_made' = IF client = "none" THEN clients_made + 1 ELSE clients_made
    /\ clients_open' = IF client = "none" THEN clients_open + 1 ELSE clients_open

\* Mutant of CloseClient: __exit__ does nothing.
CloseClient_Noop ==
    UNCHANGED <<client, clients_made, clients_open>>

\* Mutant of CloseClient: the reference is dropped, the client is not closed.
CloseClient_DropOnly ==
    /\ client' = "none"
    /\ UNCHANGED <<clients_made, clients_open>>

\* The body of __exit__: self._client is closed if there is one, and set to
\* None.
CloseClient ==
    /\ client' = "none"
    /\ clients_open' = IF client = "open" THEN clients_open - 1 ELSE clients_open
    /\ UNCHANGED clients_made

\* __exit__
Exit ==
    /\ session = "entered"
    /\ cpc \in {"idle", "done"}
    /\ session' = "exited"
    /\ CloseClient
    /\ UNCHANGED <<tok, now, callVars>>
    /\ UNCHANGED <<retryVars, sessionVars, pageVars, reconVars, pipeVars, pureVars>>

\* time.time() is seen to have moved on by dt.
Tick(dt) ==
    /\ now + dt <= MaxNow
    /\ now' = now + dt
    /\ UNCHANGED <<tok, client, clients_made, clients_open, session, callVars>>
    /\ UNCHANGED <<retryVars, sessionVars, pageVars, reconVars, pipeVars, pureVars>>

\* api.authenticate() is called: its wrapper starts with attempt = 0.
CallAuthenticate ==
    /\ session # "exited"
    /\ cpc \in {"idle", "done"}
    /\ op' = "authenticate"
    /\ cpc' = "login"
    /\ a_attempt' = 0
    /\ d_attempt' = 0
    /\ c_raised' = NoExc
    /\ login_requests' = 0
    /\ data_requests' = 0
    /\ c_sleeps' = 0
    /\ chk' = NoCheck
    /\ pass_logins' = 0
    /\ pass_data' = 0
    /\ auth_called' = FALSE
    /\ a_requests' = 0
    /\ a_sleeps' = 0
    /\ a_seen' = {}
    /\ a_stored' = FALSE
    /\ UNCHANGED <<tok, client, clients_made, clients_open, session, now>>
    /\ UNCHANGED <<retryVars, sessionVars, pageVars, reconVars, pipeVars, pureVars>>

\* A data operation is called: its wrapper starts with attempt = 0.
CallData(o) ==
    /\ session # "exited"
    /\ cpc \in {"idle", "done"}
    /\ op' = o
    /\ cpc' = "invoke"
    /\ a_attempt' = 0
    /\ d_attempt' = 0
    /\ c_raised' = NoExc
    /\ login_requests' = 0
    /\ data_requests' = 0
    /\ c_sleeps' = 0
    /\ chk' = NoCheck
    /\ pass_logins' = 0
    /\ pass_data' = 0
    /\ auth_called' = FALSE
    /\ a_requests' = 0
    /\ a_sleeps' = 0
    /\ a_seen' = {}
    /\ a_stored' = FALSE
    /\ UNCHANGED <<tok, client, clients_made, clients_open, session, now>>
    /\ UNCHANGED <<retryVars, sessionVars, pageVars, reconVars, pipeVars, pureVars>>

\* The data operation's wrapper calls func (attempt <= max_retries), which
\* begins with _ensure_valid_token(): authenticate() if _is_token_expired().
DataInvoke ==
    /\ cpc = "invoke"
    /\ d_attempt <= DATA_MAX_RETRIES
    /\ chk' = [checked |-> TRUE, held |-> tok # NoToken,
               left |-> IF tok = NoToken THEN 0 ELSE tok.exp - now]
    /\ pass_logins' = 0
    /\ pass_data' = 0
    /\ a_attempt' = 0
    /\ a_requests' = 0
    /\ a_sleeps' = 0
    /\ a_seen' = {}
    /\ a_stored' = FALSE
    /\ IF IsTokenExpired(tok, now)
       THEN /\ cpc' = "login"
            /\ auth_called' = TRUE
       ELSE /\ cpc' = "request"
            /\ auth_called' = FALSE
    /\ UNCHANGED <<tok, client, clients_made, clients_open, session, now, op,
                   d_attempt, c_raised,
                   login_requests, data_requests, c_sleeps>>
    /\ UNCHANGED <<retryVars, sessionVars, pageVars, reconVars, pipeVars, pureVars>>

\* Mutant of LeaveAuthenticate: the data operation's wrapper takes the
\* error of authenticate() for a transport error and retries.
LeaveAuthenticate_Retried(exc) ==
    IF op = "authenticate"
    THEN /\ cpc' = "done"
         /\ c_raised' = exc
         /\ UNCHANGED <<d_attempt, c_sleeps>>
    ELSE LET h == RetryOrGiveUp(d_attempt + 1, DATA_MAX_RETRIES, exc)
         IN  /\ d_attempt' = h.attempt
             /\ IF h.act = "raise"
                THEN /\ cpc' = "done"
                     /\ c_raised' = h.exc
                     /\ UNCHANGED c_sleeps
                ELSE /\ cpc' = "invoke"
                     /\ c_sleeps' = c_sleeps + 1
                     /\ UNCHANGED c_raised

\* Exception exc leaves authenticate() (its wrapper included).  Called
\* directly, it leaves the public method; called by a data operation, it
\* leaves func and meets the data operation's wrapper.
LeaveAuthenticate(exc) ==
    IF op = "authenticate"
    THEN /\ cpc' = "done"
         /\ c_raised' = exc
         /\ UNCHANGED <<d_attempt, c_sleeps>>
    ELSE LET h == HandleException(exc, d_attempt, DATA_MAX_RETRIES)
         IN  /\ d_attempt' = h.attempt
             /\ IF h.act = "raise"
                THEN /\ cpc' = "done"
                     /\ c_raised' = h.exc
                     /\ UNCHANGED c_sleeps
                ELSE /\ cpc' = "invoke"
                     /\ c_sleeps' = c_sleeps + 1
                     /\ UNCHANGED c_raised

\* The login request is answered 200 with "Authorization" field h.
LoginSucceeds(h) ==
    /\ cpc = "login"
    /\ a_attempt <= AUTHENTICATE_MAX_RETRIES
    /\ GetClient
    /\ login_requests' = login_requests + 1
    /\ pass_logins' = pass_logins + 1
    /\ a_requests' = a_requests + 1
    /\ IF h = <<>>
       THEN \* raise APIAuthenticationError("No Authorization header ...")
            LET exc == NewException("APIAuthenticationError", <<>>, NoExc)
                w == HandleException(exc, a_attempt, AUTHENTICATE_MAX_RETRIES)
            IN  /\ a_attempt' = w.attempt
                /\ LeaveAuthenticate(w.exc)
                /\ UNCHANGED <<tok, a_stored>>
       ELSE /\ tok' = [value |-> TokenValue(h), exp |-> now + TOKEN_LIFETIME]
            /\ a_stored' = TRUE
            /\ cpc' = IF op = "authenticate" THEN "done" ELSE "request"
            /\ UNCHANGED <<a_attempt, d_attempt, c_raised, c_sleeps>>
    /\ UNCHANGED <<session, now, op, data_requests, chk, pass_data, auth_called,
                   a_sleeps, a_seen>>
    /\ UNCHANGED <<retryVars, sessionVars, pageVars, reconVars, pipeVars, pureVars>>

\* The login request fails with err: the except clause of authenticate, then
\* authenticate's wrapper.
LoginFails(err) ==
    /\ cpc = "login"
    /\ a_attempt <= AUTHENTICATE_MAX_RETRIES
    /\ GetClient
    /\ login_requests' = login_requests + 1
    /\ pass_logins' = pass_logins + 1
    /\ a_requests' = a_requests + 1
    /\ a_seen' = a_seen \cup {err}
    /\ LET e == RawError(err[1], err[2], login_requests + data_requests + 1)
           w == HandleException(AuthenticateExcept(e), a_attempt,
                                AUTHENTICATE_MAX_RETRIES)
       IN  /\ a_attempt' = w.attempt
           /\ IF w.act = "raise"
              THEN /\ LeaveAuthenticate(w.exc)
                   /\ UNCHANGED a_sleeps
              ELSE /\ a_sleeps' = a_sleeps + 1
                   /\ c_sleeps' = c_sleeps + 1
                   /\ cpc' = "login"
                   /\ UNCHANGED <<d_attempt, c_raised>>
    /\ UNCHANGED <<tok, session, now, op, data_requests, chk, pass_data,
                   auth_called, a_stored>>
    /\ UNCHANGED <<retryVars, sessionVars, pageVars, reconVars, pipeVars, pureVars>>

\* The data request, sent with _headers(), is answered 200: func returns.
DataSucceeds ==
    /\ cpc = "request"
    /\ GetClient
    /\ data_requests' = data_requests + 1
    /\ pass_data' = pass_data + 1
    /\ cpc' = "done"
    /\ UNCHANGED <<tok, session, now, op, d_attempt, a_attempt, c_raised,
                   login_requests, c_sleeps, chk, pass_logins, auth_called,
                   a_requests, a_sleeps, a_seen, a_stored>>
    /\ UNCHANGED <<retryVars, sessionVars, pageVars, reconVars, pipeVars, pureVars>>

\* The data request fails with err: the data operation's wrapper.
DataFails(err) ==
    /\ cpc = "request"
    /\ GetClient
    /\ data_requests' = data_requests + 1
    /\ pass_data' = pass_data + 1
    /\ LET e == RawError(err[1], err[2], login_requests + data_requests + 1)
           h == HandleException(e, d_attempt, DATA_MAX_RETRIES)
       IN  /\ d_attempt' = h.attempt
           /\ IF h.act = "raise"
              THEN /\ cpc' = "done"
                   /\ c_raised' = h.exc
                   /\ UNCHANGED c_sleeps
              ELSE /\ cpc' = "invoke"
                   /\ c_sleeps' = c_sleeps + 1
                   /\ UNCHANGED c_raised
    /\ UNCHANGED <<tok, session, now, op, a_attempt, login_requests, chk,
                   pass_logins, auth_called, a_requests, a_sleeps, a_seen,
                   a_stored>>
    /\ UNCHANGED <<retryVars, sessionVars, pageVars, reconVars, pipeVars, pureVars>>

Next ==
    \/ Enter
    \/ Exit
    \/ \E dt \in {TOKEN_REFRESH_BUFFER,
                  TOKEN_LIFETIME - 2 * TOKEN_REFRESH_BUFFER,
                  TOKEN_LIFETIME - TOKEN_REFRESH_BUFFER + 1} : Tick(dt)
    \/ CallAuthenticate
    \/ \E o \in DataOps : CallData(o)
    \/ DataInvoke
    \/ \E h \in {<<>>, <<"t1">>, <<"Bearer", "t1">>} : LoginSucceeds(h)
    \/ \E err \in RequestFailures : LoginFails(err)
    \/ DataSucceeds
    \/ \E err \in RequestFailures : DataFails(err)

----------------------------------------------------------------------------
(* with_session_retry *)

DEFAULT_MAX_RETRIES == 2

\* Text is a sequence of one-character strings, so that lower() and the
\* substring test `phrase in error_message` are computed, not assumed.

\* Mutant of SESSION_ERROR_KEYWORDS: the last phrase is cut at the space.
SESSION_ERROR_KEYWORDS_Cut ==
    << <<"t", "a", "r", "g", "e", "t", " ", "c", "l", "o", "s", "e", "d">>,
       <<"s", "e", "s", "s", "i", "o", "n">>,
       <<"t", "i", "m", "e", "o", "u", "t">>,
       <<"n", "a", "v", "i", "g", "a", "t", "i", "o", "n">>,
       <<"d", "e", "t", "a", "c", "h", "e", "d">>,
       <<"n", "o", "t">> >>

SESSION_ERROR_KEYWORDS ==
    << <<"t", "a", "r", "g", "e", "t", " ", "c", "l", "o", "s", "e", "d">>,
       <<"s", "e", "s", "s", "i", "o", "n">>,
       <<"t", "i", "m", "e", "o", "u", "t">>,
       <<"n", "a", "v", "i", "g", "a", "t", "i", "o", "n">>,
       <<"d", "e", "t", "a", "c", "h", "e", "d">>,
       <<"n", "o", "t", " ", "f", "o", "u", "n", "d">> >>

\* str(e) of the errors the wrapped method is taken to raise: messages that
\* name a session problem ("Target closed", "Timeout exceeded", "Session
\* expired", "Navigation failed", "Frame detached", "Account not found") and
\* messages that do not ("cannot parse", "Time out", "").
SessionMessages ==
    {<<"T", "a", "r", "g", "e", "t", " ", "c", "l", "o", "s", "e", "d">>,
     <<"T", "i", "m", "e", "o", "u", "t", " ", "e", "x", "c", "e", "e", "d", "e", "d">>,
     <<"S", "e", "s", "s", "i", "o", "n", " ", "e", "x", "p", "i", "r", "e", "d">>,
     <<"N", "a", "v", "i", "g", "a", "t", "i", "o", "n", " ", "f", "a", "i", "l", "e", "d">>,
     <<"F", "r", "a", "m", "e", " ", "d", "e", "t", "a", "c", "h", "e", "d">>,
     <<"A", "c", "c", "o", "u", "n", "t", " ", "n", "o", "t", " ", "f", "o", "u", "n", "d">>}

NonSessionMessages ==
    {<<"c", "a", "n", "n", "o", "t", " ", "p", "a", "r", "s", "e">>,
     <<"T", "i", "m", "e", " ", "o", "u", "t">>,
     <<>>}

\* str.lower(), one character
LowerChar(c) ==
    LET upper == <<"A", "B", "C", "D", "E", "F", "G", "H", "I", "J", "K", "L", "M",
                   "N", "O", "P", "Q", "R", "S", "T", "U", "V", "W", "X", "Y", "Z">>
        lower == <<"a", "b", "c", "d", "e", "f", "g", "h", "i", "j", "k", "l", "m",
                   "n", "o", "p", "q", "r", "s", "t", "u", "v", "w", "x", "y", "z">>
    IN  IF \E i \in 1..Len(upper) : upper[i] = c
        THEN lower[CHOOSE i \in 1..Len(upper) : upper[i] = c]
        ELSE c

\* str.lower()
Lower(s) == [i \in 1..Len(s) |-> LowerChar(s[i])]

\* `sub in s` for strings
Contains(s, sub) ==
    \E i \in 0..(Len(s) - Len(sub)) : SubSeq(s, i + 1, i + Len(sub)) = sub

\* is_session_error = any(phrase in error_message for phrase in SESSION_ERROR_KEYWORDS)
\* with error_message = str(e).lower()
IsSessionError(msg) ==
    LET error_message == Lower(msg)
    IN  \E k \in 1..Len(SESSION_ERROR_KEYWORDS) :
            Contains(error_message, SESSION_ERROR_KEYWORDS[k])

\* An exception of the browser layer: [type, msg, seq, cause], seq and cause
\* as for the API layer.
NoSErr == [type |-> "None", msg |-> <<>>, seq |-> 0, cause |-> 0]

OperationError(msg, seq) == [type |-> "Error", msg |-> msg, seq |-> seq, cause |-> 0]

\* SessionExpiredError(...) raised `from last` (last = NoSErr: no from clause)
SessionExpiredError(last) ==
    [type |-> "SessionExpiredError", msg |-> <<>>, seq |-> 0, cause |-> last.seq]

\* time.sleep(min(2**attempt, 8))
SessionBackoff(att) == Min(Pow(2, att), 8)

\* Mutant of AuthErrorRaises: the from clause is left out.
AuthErrorRaises_NoFrom(att, maxr, last) ==
    IF att = maxr THEN SessionExpiredError(NoSErr) ELSE NoSErr

\* except Exception as auth_error: on the final attempt raise
\* SessionExpiredError from last_exception, otherwise fall through (NoSErr).
AuthErrorRaises(att, maxr, last) ==
    IF att = maxr THEN SessionExpiredError(last) ELSE NoSErr

----------------------------------------------------------------------------
(* AccountsPage.run, the wrapped method *)

\* The options of the account dropdown, in order; the same at every attempt.
Accounts == 1..MaxAccounts

\* A dict with no key.
EmptyDict == [a \in {} |-> 0]

\* What parse_summary() and parse_account_transaction_history() read for
\* account a while the pages show the data of login session ep.
PageSummary(a, ep) == [account |-> a, read_in |-> ep]

PageTransactions(a, ep) == <<[account |-> a, read_in |-> ep]>>

\* self.accounts_summary[account_id] = account_summary
WriteSummary(d, a, ep) ==
    [x \in DOMAIN d \cup {a} |-> IF x = a THEN PageSummary(a, ep) ELSE d[x]]

\* Mutant of WriteHistory: the list is extended where the key exists.
WriteHistory_Extend(d, a, ep) ==
    [x \in DOMAIN d \cup {a} |->
        IF x # a THEN d[x]
        ELSE IF a \in DOMAIN d THEN d[a] \o PageTransactions(a, ep)
        ELSE PageTransactions(a, ep)]

\* self.transaction_history[account_id] = transactions
WriteHistory(d, a, ep) ==
    [x \in DOMAIN d \cup {a} |-> IF x = a THEN PageTransactions(a, ep) ELSE d[x]]

\* The body of run() from the iteration of account a on, on the object
\* state pg = [summary, history]: it completes the iterations before
\* account `stop`, and if half, raises in that iteration after the summary
\* was written (half = FALSE: before it).  stop = MaxAccounts + 1: the loop
\* runs to its end.
RECURSIVE RunFrom(_, _, _, _, _)
RunFrom(pg, a, stop, half, ep) ==
    IF a > MaxAccounts THEN pg
    ELSE IF a = stop
    THEN IF half
         THEN [pg EXCEPT !.summary = WriteSummary(pg.summary, a, ep)]
         ELSE pg
    ELSE RunFrom([summary |-> WriteSummary(pg.summary, a, ep),
                  history |-> WriteHistory(pg.history, a, ep)],
                 a + 1, stop, half, ep)

\* AccountsPage.__init__; the pages show the data of the first login.
PageInit ==
    /\ accounts_summary = EmptyDict
    /\ transaction_history = EmptyDict
    /\ page_epoch = 1
    /\ half_written = FALSE
    /\ transfers = 0

\* func(self) returns: run() went through every account.
RunReturns ==
    LET pg == RunFrom([summary |-> accounts_summary, history |-> transaction_history],
                      1, MaxAccounts + 1, FALSE, page_epoch)
    IN  /\ accounts_summary' = pg.summary
        /\ transaction_history' = pg.history
        /\ UNCHANGED <<page_epoch, half_written, transfers>>

\* func(self) raises: run() was cut in the iteration of account stop.
RunRaises(stop, half) ==
    LET pg == RunFrom([summary |-> accounts_summary, history |-> transaction_history],
                      1, stop, half, page_epoch)
    IN  /\ accounts_summary' = pg.summary
        /\ transaction_history' = pg.history
        /\ half_written' = (half_written \/ half)
        /\ UNCHANGED <<page_epoch, transfers>>

----------------------------------------------------------------------------
(* with_session_retry: the wrapper *)

\* The wrapper before its first pass, for a decorator argument in range, on a
\* page object with or without session context.
SessionInit ==
    /\ s_max_retries \in 0..MaxSessionRetries
    /\ has_context \in BOOLEAN
    /\ s_attempt = 0
    /\ s_last_exception = NoSErr
    /\ s_pc = "loop"
    /\ s_raised = NoSErr
    /\ s_fallback = FALSE
    /\ s_invocations = 0
    /\ s_probes = 0
    /\ s_reauths = 0
    /\ s_sleeps = <<>>
    /\ s_last_event = "none"
    /\ s_clean = TRUE

\* No wrapped call is in progress (the other specifications).
SessionIdle ==
    /\ s_max_retries = DEFAULT_MAX_RETRIES
    /\ has_context = FALSE
    /\ s_attempt = 0
    /\ s_last_exception = NoSErr
    /\ s_pc = "loop"
    /\ s_raised = NoSErr
    /\ s_fallback = FALSE
    /\ s_invocations = 0
    /\ s_probes = 0
    /\ s_reauths = 0
    /\ s_sleeps = <<>>
    /\ s_last_event = "none"
    /\ s_clean = TRUE

\* Mutant of RetryIfAttemptsRemain: gives up one attempt early.
RetryIfAttemptsRemain_OneShort(att, e, ev) ==
    IF att + 1 < s_max_retries
    THEN /\ s_sleeps' = Append(s_sleeps, SessionBackoff(att))
         /\ s_pc' = "loop"
         /\ s_last_event' = IF ev = "reauth_failed" THEN ev ELSE "retry"
         /\ UNCHANGED s_raised
    ELSE /\ s_pc' = "raised"
         /\ s_raised' = e
         /\ s_last_event' = ev
         /\ UNCHANGED s_sleeps

\* "If we couldn't determine logout status or re-auth failed, retry if
\* attempts remain": sleep and continue, or re-raise e.  ev: the event
\* recorded when it raises.
RetryIfAttemptsRemain(att, e, ev) ==
    IF att < s_max_retries
    THEN /\ s_sleeps' = Append(s_sleeps, SessionBackoff(att))
         /\ s_pc' = "loop"
         /\ s_last_event' = IF ev = "reauth_failed" THEN ev ELSE "retry"
         /\ UNCHANGED s_raised
    ELSE /\ s_pc' = "raised"
         /\ s_raised' = e
         /\ s_last_event' = ev
         /\ UNCHANGED s_sleeps

\* A pass of `for attempt in range(1, max_retries + 1)` in which func returns.
WrapperReturns ==
    /\ s_pc = "loop"
    /\ s_attempt + 1 <= s_max_retries
    /\ s_attempt' = s_attempt + 1
    /\ s_invocations' = s_invocations + 1
    /\ s_pc' = "returned"
    /\ s_last_event' = "invoke"
    /\ UNCHANGED <<s_max_retries, has_context, s_last_exception, s_raised,
                   s_fallback, s_probes, s_reauths, s_sleeps, s_clean>>
    /\ UNCHANGED <<retryVars, clientVars, reconVars, pipeVars, pureVars>>

\* The wrapped method is AccountsPage.run and returns.
SInvokeReturns ==
    /\ WrapperReturns
    /\ RunReturns

\* A pass of the loop in which func raises an exception with message m: up
\* to the call of is_logged_out(), if it comes to that.
WrapperRaises(m) ==
    /\ s_pc = "loop"
    /\ s_attempt + 1 <= s_max_retries
    /\ LET att == s_attempt + 1
           e == OperationError(m, s_invocations + 1)
       IN  /\ s_attempt' = att
           /\ s_invocations' = s_invocations + 1
           /\ s_last_exception' = e
           /\ IF ~IsSessionError(m)
              THEN \* not a session error: re-raise immediately
                   /\ s_pc' = "raised"
                   /\ s_raised' = e
                   /\ s_last_event' = "invoke"
                   /\ s_clean' = FALSE
                   /\ UNCHANGED s_sleeps
              ELSE IF has_context
              THEN /\ s_pc' = "probe"
                   /\ s_last_event' = "invoke"
                   /\ UNCHANGED <<s_raised, s_sleeps, s_clean>>
              ELSE /\ RetryIfAttemptsRemain(att, e, "invoke")
                   /\ s_clean' = FALSE
    /\ UNCHANGED <<s_max_retries, has_context, s_fallback, s_probes, s_reauths>>
    /\ UNCHANGED <<retryVars, clientVars, reconVars, pipeVars, pureVars>>

\* The wrapped method is AccountsPage.run and raises.
SInvokeRaises(m) ==
    /\ WrapperRaises(m)
    /\ \E stop \in Accounts, half \in BOOLEAN : RunRaises(stop, half)

\* TransferPage.run_transfer returns: navigate, execute_transfer, which
\* clicks "Transfer Money", capture_confirmation and take_screenshot.
RunTransferReturns ==
    /\ transfers' = transfers + 1
    /\ UNCHANGED <<accounts_summary, transaction_history, page_epoch, half_written>>

\* TransferPage.run_transfer raises, before the click on "Transfer Money"
\* (navigate, select_option, fill, the click itself) or after it
\* (wait_for_load_state, capture_confirmation, take_screenshot).
RunTransferRaises(submitted) ==
    /\ transfers' = IF submitted THEN transfers + 1 ELSE transfers
    /\ UNCHANGED <<accounts_summary, transaction_history, page_epoch, half_written>>

\* The wrapped method is TransferPage.run_transfer.
TInvokeReturns ==
    /\ WrapperReturns
    /\ RunTransferReturns

TInvokeRaises(m, submitted) ==
    /\ WrapperRaises(m)
    /\ RunTransferRaises(submitted)

\* self.login_page.is_logged_out() answers out (it returns True rather than
\* raise).  self.credentials exists whenever self.login_page does.
SProbe(out) ==
    /\ s_pc = "probe"
    /\ s_probes' = s_probes + 1
    /\ IF out
       THEN /\ s_pc' = "reauth"
            /\ s_last_event' = "probe"
            /\ UNCHANGED <<s_raised, s_sleeps, s_clean>>
       ELSE /\ RetryIfAttemptsRemain(s_attempt, s_last_exception, "probe")
            /\ s_clean' = FALSE
    /\ UNCHANGED <<s_max_retries, has_context, s_attempt, s_last_exception,
                   s_fallback, s_invocations, s_reauths>>
    /\ UNCHANGED pageVars
    /\ UNCHANGED <<retryVars, clientVars, reconVars, pipeVars, pureVars>>

\* The re-authentication sequence ends as r says: all three steps pass, then
\* sleep and continue; or one raises (auth_error).
SReauth(r) ==
    /\ s_pc = "reauth"
    /\ s_reauths' = s_reauths + 1
    /\ IF r = "ok"
       THEN /\ s_sleeps' = Append(s_sleeps, SessionBackoff(s_attempt))
            /\ s_pc' = "loop"
            /\ s_last_event' = "recovered"
            /\ UNCHANGED <<s_raised, s_clean>>
       ELSE LET x == AuthErrorRaises(s_attempt, s_max_retries, s_last_exception)
            IN  /\ s_clean' = FALSE
                /\ IF x # NoSErr
                   THEN /\ s_pc' = "raised"
                        /\ s_raised' = x
                        /\ s_last_event' = "reauth_failed"
                        /\ UNCHANGED s_sleeps
                   ELSE RetryIfAttemptsRemain(s_attempt, s_last_exception,
                                              "reauth_failed")
    /\ UNCHANGED <<s_max_retries, has_context, s_attempt, s_last_exception,
                   s_fallback, s_invocations, s_probes>>
    /\ page_epoch' = IF r = "ok" THEN page_epoch + 1 ELSE page_epoch
    /\ UNCHANGED <<accounts_summary, transaction_history, half_written, transfers>>
    /\ UNCHANGED <<retryVars, clientVars, reconVars, pipeVars, pureVars>>

\* The range is used up: the raise after the loop.
SFallback ==
    /\ s_pc = "loop"
    /\ ~(s_attempt + 1 <= s_max_retries)
    /\ s_pc' = "raised"
    /\ s_fallback' = TRUE
    /\ s_raised' = IF s_last_exception # NoSErr
                   THEN s_last_exception
                   ELSE SessionExpiredError(NoSErr)
    /\ UNCHANGED <<s_max_retries, has_context, s_attempt, s_last_exception,
                   s_invocations, s_probes, s_reauths, s_sleeps, s_last_event,
                   s_clean>>
    /\ UNCHANGED pageVars
    /\ UNCHANGED <<retryVars, clientVars, reconVars, pipeVars, pureVars>>

SessionNext ==
    \/ SInvokeReturns
    \/ \E m \in (SessionMessages \cup NonSessionMessages) : SInvokeRaises(m)
    \/ \E out \in BOOLEAN : SProbe(out)
    \/ \E r \in {"ok", "goto_raises", "login_raises", "assert_raises"} : SReauth(r)
    \/ SFallback

\* transfer_page.run_transfer(...) under @with_session_retry()
TransferInit ==
    /\ s_max_retries = DEFAULT_MAX_RETRIES
    /\ has_context \in BOOLEAN
    /\ s_attempt = 0
    /\ s_last_exception = NoSErr
    /\ s_pc = "loop"
    /\ s_raised = NoSErr
    /\ s_fallback = FALSE
    /\ s_invocations = 0
    /\ s_probes = 0
    /\ s_reauths = 0
    /\ s_sleeps = <<>>
    /\ s_last_event = "none"
    /\ s_clean = TRUE

TransferNext ==
    \/ TInvokeReturns
    \/ \E m \in (SessionMessages \cup NonSessionMessages), submitted \in BOOLEAN :
           TInvokeRaises(m, submitted)
    \/ \E out \in BOOLEAN : SProbe(out)
    \/ \E r \in {"ok", "goto_raises", "login_raises", "assert_raises"} : SReauth(r)
    \/ SFallback

----------------------------------------------------------------------------
(* Data frames, as far as the reconciliation uses them *)

\* A cell: NaN (None), a number or a string.  Money is counted in 1/1000 of
\* a dollar, so that amounts below the tolerance of one cent occur.
NaN == <<>>

Num(n) == <<"num", n>>

Str(s) == <<"str", s>>

\* A frame: its column names and its rows, each row a function on the columns.
EmptyFrame == [cols |-> {}, rows |-> <<>>]

\* None passed where a frame is expected.
NoneFrame == [cols |-> {}, rows |-> <<>>, none |-> TRUE]

\* df.empty
IsEmpty(df) == df.cols = {} \/ df.rows = <<>>

\* pd.DataFrame([row])
OneRow(row) == [cols |-> DOMAIN row, rows |-> <<row>>]

\* What a function returns or raises: err = "" when it returns df.
Returns(df) == [err |-> "", df |-> df]

Raises(exc) == [err |-> exc, df |-> EmptyFrame]

\* df[col] = value, df.assign(col=value): the column is added or overwritten
\* with the same value in every row.
WithConstant(df, col, value) ==
    [cols |-> df.cols \cup {col},
     rows |-> [i \in 1..Len(df.rows) |->
                  [c \in df.cols \cup {col} |->
                      IF c = col THEN value ELSE df.rows[i][c]]]]

\* df.rename(columns=mapping)
Rename(df, mapping) ==
    LET NewName(c) == IF c \in DOMAIN mapping THEN mapping[c] ELSE c
        cols == {NewName(c) : c \in df.cols}
    IN  [cols |-> cols,
         rows |-> [i \in 1..Len(df.rows) |->
                      [n \in cols |->
                          df.rows[i][CHOOSE c \in df.cols : NewName(c) = n]]]]

\* df[[...]]: KeyError when a listed column is missing.
SelectColumns(df, cols) ==
    IF cols \subseteq df.cols
    THEN Returns([cols |-> cols,
                  rows |-> [i \in 1..Len(df.rows) |->
                               [c \in cols |-> df.rows[i][c]]]])
    ELSE Raises("KeyError")

\* The text of the column names and rule keywords that occur.
ColumnText(col) ==
    CASE col = "Account ID/Number" ->
           <<"A", "c", "c", "o", "u", "n", "t", " ", "I", "D", "/", "N", "u", "m", "b", "e", "r">>
      [] col = "Account Name/Type" ->
           <<"A", "c", "c", "o", "u", "n", "t", " ", "N", "a", "m", "e", "/", "T", "y", "p", "e">>
      [] col = "Account Name" ->
           <<"A", "c", "c", "o", "u", "n", "t", " ", "N", "a", "m", "e">>
      [] col = "Total Balance" ->
           <<"T", "o", "t", "a", "l", " ", "B", "a", "l", "a", "n", "c", "e">>
      [] col = "Available Balance" ->
           <<"A", "v", "a", "i", "l", "a", "b", "l", "e", " ", "B", "a", "l", "a", "n", "c", "e">>
      [] col = "Transaction ID" ->
           <<"T", "r", "a", "n", "s", "a", "c", "t", "i", "o", "n", " ", "I", "D">>
      [] col = "Transaction Time" ->
           <<"T", "r", "a", "n", "s", "a", "c", "t", "i", "o", "n", " ", "T", "i", "m", "e">>
      [] col = "Account ID" ->
           <<"A", "c", "c", "o", "u", "n", "t", " ", "I", "D">>
      [] col = "Action" ->
           <<"A", "c", "t", "i", "o", "n">>
      [] col = "Debit" ->
           <<"D", "e", "b", "i", "t">>
      [] col = "Credit" ->
           <<"C", "r", "e", "d", "i", "t">>
      [] col = "account_id" ->
           <<"a", "c", "c", "o", "u", "n", "t", "_", "i", "d">>
      [] col = "account_name" ->
           <<"a", "c", "c", "o", "u", "n", "t", "_", "n", "a", "m", "e">>
      [] col = "balance" ->
           <<"b", "a", "l", "a", "n", "c", "e">>
      [] col = "available_balance" ->
           <<"a", "v", "a", "i", "l", "a", "b", "l", "e", "_", "b", "a", "l", "a", "n", "c", "e">>
      [] col = "account" ->
           <<"a", "c", "c", "o", "u", "n", "t">>
      [] col = "id" ->
           <<"i", "d">>
      [] col = "number" ->
           <<"n", "u", "m", "b", "e", "r">>
      [] col = "transaction" ->
           <<"t", "r", "a", "n", "s", "a", "c", "t", "i", "o", "n">>
      [] col = "total" ->
           <<"t", "o", "t", "a", "l">>
      [] col = "available" ->
           <<"a", "v", "a", "i", "l", "a", "b", "l", "e">>
      [] col = "transaction_id" ->
           <<"t", "r", "a", "n", "s", "a", "c", "t", "i", "o", "n", "_", "i", "d">>
      [] col = "transaction_time" ->
           <<"t", "r", "a", "n", "s", "a", "c", "t", "i", "o", "n", "_", "t", "i", "m", "e">>
      [] col = "action" ->
           <<"a", "c", "t", "i", "o", "n">>
      [] col = "debit" ->
           <<"d", "e", "b", "i", "t">>
      [] col = "credit" ->
           <<"c", "r", "e", "d", "i", "t">>
      [] OTHER -> <<>>

\* Mutant of NormalizeColumnNames: one keyword of a rule is enough.
NormalizeColumnNames_AnyKeyword(df, mapping_rules) ==
    LET Matches(col, k) ==
            LET col_lower == Lower(ColumnText(col))
            IN  \E j \in 1..Len(mapping_rules[k].keywords) :
                    Contains(col_lower, mapping_rules[k].keywords[j])
        Matching(col) == {k \in 1..Len(mapping_rules) : Matches(col, k)}
        First(col) == CHOOSE k \in Matching(col) : \A j \in Matching(col) : k <= j
        column_mapping ==
            [col \in {c \in df.cols : Matching(c) # {}} |->
                mapping_rules[First(col)].target]
    IN  IF DOMAIN column_mapping # {} THEN Rename(df, column_mapping) ELSE df

\* normalize_column_names: each column takes the target of the first rule
\* all of whose keywords occur in its lowercased name.
NormalizeColumnNames(df, mapping_rules) ==
    LET Matches(col, k) ==
            LET col_lower == Lower(ColumnText(col))
            IN  \A j \in 1..Len(mapping_rules[k].keywords) :
                    Contains(col_lower, mapping_rules[k].keywords[j])
        Matching(col) == {k \in 1..Len(mapping_rules) : Matches(col, k)}
        First(col) == CHOOSE k \in Matching(col) : \A j \in Matching(col) : k <= j
        column_mapping ==
            [col \in {c \in df.cols : Matching(c) # {}} |->
                mapping_rules[First(col)].target]
    IN  IF DOMAIN column_mapping # {} THEN Rename(df, column_mapping) ELSE df

\* str(n) for a non-negative integer
RECURSIVE IntToStr(_)
IntToStr(n) ==
    LET digits == <<"0", "1", "2", "3", "4", "5", "6", "7", "8", "9">>
    IN  IF n < 10 THEN digits[n + 1]
        ELSE IntToStr(n \div 10) \o digits[(n % 10) + 1]

\* .astype(str), one cell
AsTypeStr(c) ==
    IF c = NaN THEN Str("nan")
    ELSE IF c[1] = "num" THEN Str(IntToStr(c[2]))
    ELSE c

\* df[col] = df[col].astype(str)
ColumnAsStr(df, col) ==
    [cols |-> df.cols,
     rows |-> [i \in 1..Len(df.rows) |->
                  [c \in df.cols |->
                      IF c = col THEN AsTypeStr(df.rows[i][c]) ELSE df.rows[i][c]]]]

\* The account ids that occur, in the order pandas sorts them.
KeyOrder == <<Str("1"), Str("2"), Str("nan"), Num(1), Num(2)>>

\* The rows of the frame with key cell k, in order.
RowsWithKey(df, on, k) == SelectSeq(df.rows, LAMBDA r : r[on] = k)

\* pd.merge(left, right, on=on, how="outer"); the frames share no other column.
MergeOuter(left, right, on) ==
    LET cols == left.cols \cup right.cols
        Combine(l, r) == [c \in cols |-> IF c \in left.cols THEN l[c] ELSE r[c]]
        LeftOnly(l) == [c \in cols |-> IF c \in left.cols THEN l[c] ELSE NaN]
        RightOnly(r) == [c \in cols |-> IF c \in right.cols THEN r[c] ELSE NaN]
        RowsFor(k) ==
            LET ls == RowsWithKey(left, on, k)
                rs == RowsWithKey(right, on, k)
            IN  IF rs = <<>> THEN [i \in 1..Len(ls) |-> LeftOnly(ls[i])]
                ELSE IF ls = <<>> THEN [i \in 1..Len(rs) |-> RightOnly(rs[i])]
                ELSE [i \in 1..(Len(ls) * Len(rs)) |->
                         Combine(ls[((i - 1) \div Len(rs)) + 1],
                                 rs[((i - 1) % Len(rs)) + 1])]
        RECURSIVE From(_)
        From(n) == IF n > Len(KeyOrder) THEN <<>>
                   ELSE RowsFor(KeyOrder[n]) \o From(n + 1)
    IN  [cols |-> cols, rows |-> From(1)]

\* a - b on two cells, NaN when either is NaN
Minus(a, b) == IF a = NaN \/ b = NaN THEN NaN ELSE Num(a[2] - b[2])

\* Series.sum() of a column over rows: NaN cells are skipped.
RECURSIVE SumOf(_, _)
SumOf(rows, col) ==
    IF rows = <<>> THEN 0
    ELSE (IF Head(rows)[col] = NaN THEN 0 ELSE Head(rows)[col][2])
         + SumOf(Tail(rows), col)

\* Series.count() of a column over rows: the cells that are not NaN.
CountOf(rows, col) == Len(SelectSeq(rows, LAMBDA r : r[col] # NaN))

\* df[col] = df[a] - df[b]
WithDifference(df, col, a, b) ==
    [cols |-> df.cols \cup {col},
     rows |-> [i \in 1..Len(df.rows) |->
                  [c \in df.cols \cup {col} |->
                      IF c = col THEN Minus(df.rows[i][a], df.rows[i][b])
                      ELSE df.rows[i][c]]]]

\* calculate_net_amount
CalculateNetAmount(df, credit_col, debit_col, result_col) ==
    WithDifference(df, result_col, credit_col, debit_col)

\* Mutant of GroupAndSumByAccount: every row stays a row of its own.
GroupAndSumByAccount_PerRow(df, group_col, sum_cols, count_col) ==
    IF ~(({group_col, count_col} \cup sum_cols) \subseteq df.cols)
    THEN Raises("KeyError")
    ELSE Returns(
        [cols |-> {group_col, "transaction_count"} \cup sum_cols,
         rows |-> [i \in 1..Len(df.rows) |->
                      [c \in {group_col, "transaction_count"} \cup sum_cols |->
                          IF c = group_col THEN df.rows[i][group_col]
                          ELSE IF c = "transaction_count" THEN Num(1)
                          ELSE df.rows[i][c]]]])

\* group_and_sum_by_account: one row per value of group_col, with the sums
\* of sum_cols and the count of count_col, renamed transaction_count.
GroupAndSumByAccount(df, group_col, sum_cols, count_col) ==
    IF ~(({group_col, count_col} \cup sum_cols) \subseteq df.cols)
    THEN Raises("KeyError")
    ELSE LET cols == {group_col, "transaction_count"} \cup sum_cols
             Group(k) ==
                 LET rs == RowsWithKey(df, group_col, k)
                 IN  IF rs = <<>> \/ k = NaN THEN <<>>
                     ELSE << [c \in cols |->
                                 IF c = group_col THEN k
                                 ELSE IF c = "transaction_count"
                                 THEN Num(CountOf(rs, count_col))
                                 ELSE Num(SumOf(rs, c))] >>
             RECURSIVE From(_)
             From(n) == IF n > Len(KeyOrder) THEN <<>>
                        ELSE Group(KeyOrder[n]) \o From(n + 1)
         IN  Returns([cols |-> cols, rows |-> From(1)])

\* row.get(col)
Get(row, col) == IF col \in DOMAIN row THEN row[col] ELSE NaN

\* calculate_variance: col1 - col2 where both are present, None otherwise
CalculateVariance(df, col1, col2, result_col) ==
    [cols |-> df.cols \cup {result_col},
     rows |-> [i \in 1..Len(df.rows) |->
                  [c \in df.cols \cup {result_col} |->
                      IF c # result_col THEN df.rows[i][c]
                      ELSE IF /\ Get(df.rows[i], col1) # NaN
                              /\ Get(df.rows[i], col2) # NaN
                           THEN Num(Get(df.rows[i], col1)[2] - Get(df.rows[i], col2)[2])
                           ELSE NaN]]]

\* VARIANCE_TOLERANCE = 0.01 dollars
VARIANCE_TOLERANCE == 10

Abs(x) == IF x < 0 THEN -x ELSE x

\* Mutant of DetermineStatus: the tolerance itself still matches.
DetermineStatus_Inclusive(variance, tolerance) ==
    IF variance = NaN THEN "Data Missing"
    ELSE IF Abs(variance[2]) <= tolerance THEN "Match"
    ELSE "Variance"

\* add_match_status.determine_status
DetermineStatus(variance, tolerance) ==
    IF variance = NaN THEN "Data Missing"
    ELSE IF Abs(variance[2]) < tolerance THEN "Match"
    ELSE "Variance"

\* add_match_status
AddMatchStatus(df, variance_col, tolerance) ==
    [cols |-> df.cols \cup {"match_status"},
     rows |-> [i \in 1..Len(df.rows) |->
                  [c \in df.cols \cup {"match_status"} |->
                      IF c = "match_status"
                      THEN Str(DetermineStatus(df.rows[i][variance_col], tolerance))
                      ELSE df.rows[i][c]]]]

----------------------------------------------------------------------------
(* Reconciliation of API data with web data (api_validate.py) *)

\* pd.DataFrame([{...}]): a one-row diagnostic record
Diagnostic(status, key, value) ==
    OneRow(("Status" :> Str(status)) @@ (key :> value))

\* _summarize_api_transactions: the per-account summary of one side.  The
\* grouping cannot raise once the required columns are there.
SummarizeApiTransactions(api_df) ==
    IF IsEmpty(api_df) THEN EmptyFrame
    ELSE LET required_cols == {"account_id", "debit", "credit", "transaction_id"}
             missing_cols == required_cols \ api_df.cols
         IN  IF missing_cols # {}
             THEN OneRow([Status |-> Str("Cannot summarize transactions"),
                          Missing_Columns |-> <<"names", missing_cols>>,
                          Available_Columns |-> <<"names", api_df.cols>>])
             ELSE LET g == GroupAndSumByAccount(api_df, "account_id",
                                                {"debit", "credit"}, "transaction_id")
                      summary == Rename(g.df, [debit |-> "total_debits",
                                               credit |-> "total_credits"])
                      net == CalculateNetAmount(summary, "total_credits",
                                                "total_debits", "net_amount")
                  IN  WithConstant(net, "data_source", Str("Transaction Summary"))

\* mapping_rules of _reconcile_accounts
AccountRules ==
    << [keywords |-> <<ColumnText("account"), ColumnText("id")>>, target |-> "account_id"],
       [keywords |-> <<ColumnText("account"), ColumnText("number")>>, target |-> "account_id"],
       [keywords |-> <<ColumnText("total"), ColumnText("balance")>>, target |-> "total"],
       [keywords |-> <<ColumnText("available"), ColumnText("balance")>>, target |-> "available"] >>

\* _reconcile_accounts
ReconcileAccounts(api_df, web_df) ==
    IF "account_id" \notin api_df.cols
    THEN Raises("KeyError")   \* api_normalized["account_id"]
    ELSE
    LET api_normalized == ColumnAsStr(api_df, "account_id")
        web_renamed == NormalizeColumnNames(web_df, AccountRules)
    IN  IF "account_id" \notin web_renamed.cols
        THEN Returns(WithConstant(api_normalized, "web_match_status",
                                  Str("No web data for comparison")))
        ELSE
        LET web_normalized == ColumnAsStr(web_renamed, "account_id")
            l == SelectColumns(api_normalized,
                     {"account_id", "account_name", "balance", "available_balance"})
            r == SelectColumns(web_normalized, {"account_id", "total", "available"})
        IN  IF l.err # "" THEN l
            ELSE IF r.err # "" THEN r
            ELSE
            LET merged == Rename(MergeOuter(l.df, r.df, "account_id"),
                                 [total |-> "balance_web",
                                  available |-> "available_balance_web"])
                v1 == CalculateVariance(merged, "balance", "balance_web",
                                        "balance_variance")
                v2 == CalculateVariance(v1, "available_balance",
                                        "available_balance_web", "available_variance")
            IN  Returns(AddMatchStatus(v2, "balance_variance", VARIANCE_TOLERANCE))

\* display_to_programmatic of _reconcile_transactions
DisplayToProgrammatic ==
    ("Transaction ID" :> "transaction_id") @@
    ("Transaction Time" :> "transaction_time") @@
    ("Account ID" :> "account_id") @@
    ("Action" :> "action") @@
    ("Debit" :> "debit") @@
    ("Credit" :> "credit")

\* fuzzy_rules of _reconcile_transactions
FuzzyRules ==
    << [keywords |-> <<ColumnText("account"), ColumnText("id")>>, target |-> "account_id"],
       [keywords |-> <<ColumnText("account"), ColumnText("number")>>, target |-> "account_id"],
       [keywords |-> <<ColumnText("transaction"), ColumnText("id")>>,
        target |-> "transaction_id"] >>

\* The join of _reconcile_transactions, once both sides have rows and the
\* account_id column: aggregate each side, outer-join, variances, status.
JoinTransactionSummaries(api_df, web_normalized) ==
    LET a == GroupAndSumByAccount(api_df, "account_id", {"debit", "credit"},
                                  "transaction_id")
        w == GroupAndSumByAccount(web_normalized, "account_id", {"debit", "credit"},
                                  "transaction_id")
    IN  IF a.err # ""
        THEN Diagnostic("Error grouping API transactions", "Error", Str(a.err))
        ELSE IF w.err # ""
        THEN Diagnostic("Error grouping web transactions", "Error", Str(w.err))
        ELSE
        LET api_summary == Rename(a.df, [debit |-> "api_total_debits",
                                         credit |-> "api_total_credits",
                                         transaction_count |-> "api_txn_count"])
            web_summary == Rename(w.df, [debit |-> "web_total_debits",
                                         credit |-> "web_total_credits",
                                         transaction_count |-> "web_txn_count"])
            merged == MergeOuter(api_summary, web_summary, "account_id")
            v1 == CalculateVariance(merged, "api_total_debits", "web_total_debits",
                                    "debit_variance")
            v2 == CalculateVariance(v1, "api_total_credits", "web_total_credits",
                                    "credit_variance")
            v3 == CalculateVariance(v2, "api_txn_count", "web_txn_count",
                                    "txn_count_variance")
            n1 == WithDifference(v3, "api_net", "api_total_credits", "api_total_debits")
            n2 == WithDifference(n1, "web_net", "web_total_credits", "web_total_debits")
            v4 == CalculateVariance(n2, "api_net", "web_net", "net_variance")
        IN  AddMatchStatus(v4, "net_variance", VARIANCE_TOLERANCE)

\* _reconcile_transactions
ReconcileTransactions(api_df0, web_df) ==
    LET web1 == Rename(web_df, [col \in web_df.cols \cap DOMAIN DisplayToProgrammatic |->
                                   DisplayToProgrammatic[col]])
        web2 == NormalizeColumnNames(web1, FuzzyRules)
        api_df == IF "account_id" \in api_df0.cols
                  THEN ColumnAsStr(api_df0, "account_id") ELSE api_df0
        web_normalized == IF "account_id" \in web2.cols
                          THEN ColumnAsStr(web2, "account_id") ELSE web2
    IN  IF IsEmpty(api_df)
        THEN IF ~IsEmpty(web_normalized)
             THEN WithConstant(SummarizeApiTransactions(web_normalized), "data_source",
                               Str("Web Only (API Empty)"))
             ELSE OneRow([Status |->
                             Str("No transaction data available from API or Web")])
        ELSE IF IsEmpty(web_normalized)
        THEN WithConstant(SummarizeApiTransactions(api_df), "data_source",
                          Str("API Only (Web Empty)"))
        ELSE IF "account_id" \notin api_df.cols
        THEN Diagnostic("Error: API data malformed", "Details",
                        Str("Missing account_id column"))
        ELSE IF "account_id" \notin web_normalized.cols
        THEN Diagnostic("Error: Web data malformed", "Details",
                        Str("Missing account_id column"))
        ELSE JoinTransactionSummaries(api_df, web_normalized)

\* len(df[df["match_status"] == label])
CountStatus(df, label) ==
    Len(SelectSeq(df.rows, LAMBDA r : r["match_status"] = Str(label)))

\* _create_variance_summary: the rows as <<metric, count>>.  The statuses
\* that contain "Variance" are the rows labelled Variance.
CreateVarianceSummary(account_recon, transaction_recon, api_acc, api_txn, web_acc, web_txn) ==
    << <<"API Accounts Retrieved", Len(api_acc.rows)>>,
       <<"API Transactions Retrieved", Len(api_txn.rows)>> >>
    \o (IF web_acc # NoneFrame
        THEN << <<"Web Accounts Scraped", Len(web_acc.rows)>> >> ELSE <<>>)
    \o (IF web_txn # NoneFrame
        THEN << <<"Web Transactions Scraped", Len(web_txn.rows)>> >> ELSE <<>>)
    \o (IF "match_status" \in account_recon.cols
        THEN << <<"Account Matches", CountStatus(account_recon, "Match")>>,
                <<"Account Variances", CountStatus(account_recon, "Variance")>> >>
        ELSE <<>>)
    \o (IF "match_status" \in transaction_recon.cols
        THEN << <<"Transaction Matches (by account)",
                  CountStatus(transaction_recon, "Match")>>,
                <<"Transaction Variances (by account)",
                  CountStatus(transaction_recon, "Variance")>> >>
        ELSE <<>>)

\* The report before _perform_reconciliation has returned.
NoReport == [account_recon |-> EmptyFrame, transaction_recon |-> EmptyFrame,
             variance_summary |-> <<>>]

\* Section 2 of _perform_reconciliation
AccountSection(api_acc, web_acc) ==
    IF web_acc # NoneFrame /\ ~IsEmpty(web_acc)
    THEN ReconcileAccounts(api_acc, web_acc)
    ELSE Returns(WithConstant(api_acc, "web_match_status",
                              Str("No web data for comparison")))

\* Section 3 of _perform_reconciliation
TransactionSection(api_txn, web_txn) ==
    IF web_txn # NoneFrame /\ ~IsEmpty(web_txn)
    THEN ReconcileTransactions(api_txn, web_txn)
    ELSE SummarizeApiTransactions(api_txn)

\* _perform_reconciliation: the report (without its constant authentication
\* section), or the exception that leaves it.
PerformReconciliation(api_acc, api_txn, web_acc, web_txn) ==
    LET acc == AccountSection(api_acc, web_acc)
    IN  IF acc.err # "" THEN [err |-> acc.err, report |-> NoReport]
        ELSE LET txn == TransactionSection(api_txn, web_txn)
             IN  [err |-> "",
                  report |-> [account_recon |-> acc.df,
                              transaction_recon |-> txn,
                              variance_summary |->
                                  CreateVarianceSummary(acc.df, txn, api_acc,
                                                        api_txn, web_acc, web_txn)]]

----------------------------------------------------------------------------
(* The frames handed to the reconciliation step *)

\* A row of _retrieve_api_accounts (the columns the reconciliation reads).
ApiAccountRow(id, bal) ==
    [account_id |-> Str(id), account_name |-> Str("name"),
     balance |-> Num(bal), available_balance |-> Num(bal)]

ApiAccountCols == {"account_id", "account_name", "balance", "available_balance"}

\* pd.DataFrame(detailed_accounts): no column at all when the list is empty.
ApiAccountFrames ==
    {EmptyFrame}
    \cup {[cols |-> ApiAccountCols, rows |-> <<ApiAccountRow("1", b)>>] :
             b \in {100000, 100005}}
    \cup {[cols |-> ApiAccountCols,
           rows |-> <<ApiAccountRow("1", 100000), ApiAccountRow("2", 100000)>>]}

\* A row of the Account_Summary sheet written in Part 2.
WebAccountRow(id, total) ==
    ("Account ID/Number" :> id) @@ ("Total Balance" :> total) @@
    ("Available Balance" :> Num(100000))

WebAccountCols == {"Account ID/Number", "Total Balance", "Available Balance"}

\* The frame without the columns in drop.
Without(df, drop) ==
    [cols |-> df.cols \ drop,
     rows |-> [i \in 1..Len(df.rows) |-> [c \in df.cols \ drop |-> df.rows[i][c]]]]

\* The web account table: not loaded, a sheet without rows, one or two
\* accounts, or a sheet that lacks a column.
WebAccountFrames ==
    {NoneFrame, [cols |-> WebAccountCols, rows |-> <<>>]}
    \cup {[cols |-> WebAccountCols, rows |-> <<WebAccountRow(Str("1"), t)>>] :
             t \in {Num(100000), Num(99995), Num(90000), NaN}}
    \cup {[cols |-> WebAccountCols, rows |-> <<WebAccountRow(id, Num(100000))>>] :
             id \in {Str("1"), Num(1), Str("2")}}
    \cup {[cols |-> WebAccountCols,
           rows |-> <<WebAccountRow(Str("1"), Num(90000)),
                      WebAccountRow(Str("2"), Num(100000))>>]}
    \cup {Without([cols |-> WebAccountCols,
                   rows |-> <<WebAccountRow(Str("1"), Num(100000))>>], {c}) :
             c \in {"Account ID/Number", "Total Balance"}}

\* A row of _retrieve_api_transactions (the columns the reconciliation reads).
ApiTxnRow(id, tid, amt) ==
    [account_id |-> Str(id), transaction_id |-> Num(tid),
     debit |-> amt[1], credit |-> amt[2]]

ApiTxnCols == {"account_id", "transaction_id", "debit", "credit"}

ApiTransactionFrames ==
    {EmptyFrame}
    \cup {[cols |-> ApiTxnCols, rows |-> <<ApiTxnRow("1", 1, amt)>>] :
             amt \in {<<Num(0), Num(100000)>>, <<Num(50000), Num(0)>>, <<Num(0), Num(100005)>>}}
    \cup {[cols |-> ApiTxnCols,
           rows |-> <<ApiTxnRow("2", 1, <<Num(0), Num(100000)>>)>>]}
    \cup {[cols |-> ApiTxnCols,
           rows |-> <<ApiTxnRow("1", 1, <<Num(0), Num(100000)>>),
                      ApiTxnRow(id, 2, <<Num(50000), Num(0)>>)>>] : id \in {"1", "2"}}

\* A row of the filtered transactions sheet written in Part 3; a blank cell
\* is read as NaN.
WebTxnRow(id, tid, amt) ==
    ("Account ID" :> id) @@ ("Transaction ID" :> Num(tid)) @@
    ("Debit" :> amt[1]) @@ ("Credit" :> amt[2])

WebTxnCols == {"Account ID", "Transaction ID", "Debit", "Credit"}

WebTransactionFrames ==
    {NoneFrame, [cols |-> WebTxnCols, rows |-> <<>>]}
    \cup {[cols |-> WebTxnCols, rows |-> <<WebTxnRow(Str("1"), 1, amt)>>] :
             amt \in {<<Num(0), Num(100000)>>, <<Num(50000), Num(0)>>,
                      <<NaN, Num(100000)>>, <<Num(0), Num(99995)>>,
                      <<Num(0), Num(50000)>>}}
    \cup {[cols |-> WebTxnCols,
           rows |-> <<WebTxnRow(id, 1, <<Num(0), Num(100000)>>)>>] :
             id \in {Str("1"), Num(1), Str("2")}}
    \cup {[cols |-> WebTxnCols,
           rows |-> <<WebTxnRow(Str("1"), 1, <<Num(0), Num(100000)>>),
                      WebTxnRow(id, 2, <<Num(50000), Num(0)>>)>>] :
             id \in {Str("1"), Str("2")}}
    \cup {Without([cols |-> WebTxnCols,
                   rows |-> <<WebTxnRow(Str("1"), 1, <<Num(0), Num(100000)>>)>>], {c}) :
             c \in {"Account ID", "Transaction ID", "Debit"}}

\* The arguments of _perform_reconciliation, before it runs.
ReconInit ==
    /\ api_accounts \in ApiAccountFrames
    /\ api_transactions \in ApiTransactionFrames
    /\ web_accounts \in WebAccountFrames
    /\ web_transactions \in WebTransactionFrames
    /\ report = NoReport
    /\ r_pc = "start"
    /\ r_error = ""

\* No reconciliation is in progress (the other specifications).
ReconIdle ==
    /\ api_accounts = EmptyFrame
    /\ api_transactions = EmptyFrame
    /\ web_accounts = NoneFrame
    /\ web_transactions = NoneFrame
    /\ report = NoReport
    /\ r_pc = "start"
    /\ r_error = ""

\* _perform_reconciliation runs: it returns the report or raises.
Reconcile ==
    /\ r_pc = "start"
    /\ LET res == PerformReconciliation(api_accounts, api_transactions,
                                        web_accounts, web_transactions)
       IN  /\ r_pc' = IF res.err = "" THEN "returned" ELSE "raised"
           /\ r_error' = res.err
           /\ report' = res.report
    /\ UNCHANGED <<api_accounts, api_transactions, web_accounts, web_transactions>>
    /\ UNCHANGED <<retryVars, clientVars, sessionVars, pageVars, pipeVars, pureVars>>

ReconNext == Reconcile

----------------------------------------------------------------------------
(* run(): the browser parts, the workbook load and the API validation *)

Stages == <<"part1", "part2", "part3", "part4", "part5", "load", "part6", "end">>

\* The parts that open a browser_session.
BrowserParts == {"part1", "part2", "part3", "part4", "part5"}

NextStage(s) == Stages[(CHOOSE i \in 1..Len(Stages) : Stages[i] = s) + 1]

\* What a call of the client can raise: the terminal errors of with_api_retry
\* and the TypeError its generic transport branch ends with.
ApiFailures == {"APIAuthenticationError", "APIError", "MaxRetriesExceededError",
                "TypeError"}

\* isinstance(e, cls) on the exception classes
IsA(e, cls) ==
    \/ cls = "Exception"
    \/ e = cls
    \/ /\ cls = "APIError"
       /\ e \in {"APIAuthenticationError", "APIConnectionError",
                 "MaxRetriesExceededError"}

\* The except clauses around api.accounts(): "raise", or "empty" for
\* return pd.DataFrame().
AccountsExcept(e) ==
    IF IsA(e, "APIAuthenticationError") THEN "raise"
    ELSE IF IsA(e, "APIConnectionError") \/ IsA(e, "MaxRetriesExceededError")
    THEN "empty"
    ELSE IF IsA(e, "APIError") THEN "empty"
    ELSE "raise"

\* Mutant of RecordExcept: the APIError clause comes first.
RecordExcept_ApiErrorFirst(e) ==
    IF IsA(e, "APIError") \/ IsA(e, "MaxRetriesExceededError") THEN "substitute"
    ELSE "raise"

\* The except clauses around api.get_account_details() and around
\* api.transactions(): "raise", or "substitute" for the placeholder row
\* (details) and for the skipped account (transactions).
RecordExcept(e) ==
    IF IsA(e, "APIAuthenticationError") THEN "raise"
    ELSE IF IsA(e, "APIError") \/ IsA(e, "MaxRetriesExceededError") THEN "substitute"
    ELSE "raise"

\* Mutant of Handled: run_part6_api_validate without its last except clause.
Handled_ApiErrorsOnly(e) ==
    \/ IsA(e, "APIAuthenticationError")
    \/ IsA(e, "APIConnectionError") \/ IsA(e, "MaxRetriesExceededError")
    \/ IsA(e, "APIError")

\* Some except clause of run_part6_api_validate takes the exception.
Handled(e) ==
    \/ IsA(e, "APIAuthenticationError")
    \/ IsA(e, "APIConnectionError") \/ IsA(e, "MaxRetriesExceededError")
    \/ IsA(e, "APIError")
    \/ IsA(e, "Exception")

\* What api.accounts() can return: up to MaxAccounts entries, each an id
\* string, an object with an id, an object without one, or anything else.
AccountLists ==
    LET entries == {[kind |-> "str", id |-> "1"], [kind |-> "dict", id |-> "2"],
                    [kind |-> "dict", id |-> ""], [kind |-> "other", id |-> ""]}
    IN  UNION {[1..n -> entries] : n \in 0..MaxAccounts}

\* The arrays transactions() can return: items are objects with money text,
\* strings, or objects with a JSON number as amount.
TransactionLists ==
    {<<>>, <<"dict">>, <<"dict", "str">>, <<"str">>, <<"number">>}

\* The row appended when the details fetch fails.
PlaceholderRow(id) ==
    [account_id |-> Str(id), account_name |-> Str("Account " \o id),
     balance |-> Num(0), available_balance |-> Num(0)]

\* pd.DataFrame(rows): no column at all when the list is empty.
FrameOf(rows) ==
    IF rows = <<>> THEN EmptyFrame ELSE [cols |-> DOMAIN rows[1], rows |-> rows]

\* The sheets of Parts 2 and 3 as run() loads them, or None.
LoadedWebAccounts ==
    {NoneFrame,
     [cols |-> WebAccountCols, rows |-> <<WebAccountRow(Str("1"), Num(100000))>>]}

LoadedWebTransactions ==
    {NoneFrame,
     [cols |-> WebTxnCols,
      rows |-> <<WebTxnRow(Str("1"), 1, <<Num(0), Num(100000)>>)>>]}

\* run() is about to call run_part1_login.
PipeInit ==
    /\ stage = "part1"
    /\ step = "enter"
    /\ playwright = "none"
    /\ browsers_open = 0
    /\ files_open = 0
    /\ write_failures = {}
    /\ todo = <<>>
    /\ collected = <<>>
    /\ p6_exc = ""
    /\ sheet = "none"
    /\ auth_failed_at = ""
    /\ record_failures = {}

\* run() has not started (the other specifications).
PipeIdle ==
    /\ stage = "none"
    /\ step = "-"
    /\ playwright = "none"
    /\ browsers_open = 0
    /\ files_open = 0
    /\ write_failures = {}
    /\ todo = <<>>
    /\ collected = <<>>
    /\ p6_exc = ""
    /\ sheet = "none"
    /\ auth_failed_at = ""
    /\ record_failures = {}

\* Mutant of CloseBrowser: the finally clause does not close the browser
\* and the driver is left running.
CloseBrowser_Skip ==
    UNCHANGED <<browsers_open, playwright>>

\* The finally clause of browser_session when tracing.stop returns:
\* browser.close(), then the exit of `with sync_playwright()`.
CloseBrowser ==
    /\ browsers_open' = browsers_open - 1
    /\ playwright' = "stopped"

\* The exit of `with sync_playwright()`: the driver is stopped, and a browser
\* it still runs ends with it.
StopPlaywright ==
    /\ playwright' = "stopped"
    /\ browsers_open' = 0

\* browser_session up to its yield: the driver starts, the browser is
\* launched, the context is made and tracing starts; a failure of one of
\* them leaves through the with statement and out of run().
BrowserEnter(out) ==
    /\ stage \in BrowserParts
    /\ step = "enter"
    /\ IF out = "ok"
       THEN /\ playwright' = "running"
            /\ browsers_open' = browsers_open + 1
            /\ step' = "body"
            /\ UNCHANGED stage
       ELSE /\ StopPlaywright
            /\ stage' = "raised"
            /\ step' = "-"
    /\ UNCHANGED <<files_open, write_failures, todo, collected, p6_exc, sheet,
                   auth_failed_at, record_failures>>
    /\ UNCHANGED <<retryVars, clientVars, sessionVars, pageVars, reconVars, pureVars>>

\* The body of the part's with block ends, by return or by exception, and
\* the finally clause runs: tracing.stop, then browser.close() unless
\* tracing.stop raised, then the exit of `with sync_playwright()`.
BrowserLeave(out) ==
    /\ stage \in BrowserParts
    /\ step = "body"
    /\ IF out = "trace_raises" THEN StopPlaywright ELSE CloseBrowser
    /\ IF out = "ok"
       THEN step' = "post" /\ UNCHANGED stage
       ELSE stage' = "raised" /\ step' = "-"
    /\ UNCHANGED <<files_open, write_failures, todo, collected, p6_exc, sheet,
                   auth_failed_at, record_failures>>
    /\ UNCHANGED <<retryVars, clientVars, sessionVars, pageVars, reconVars, pureVars>>

\* The rest of the part, after its with block: checks and workbook sheets.
PartPost(out) ==
    /\ stage \in BrowserParts
    /\ step = "post"
    /\ IF out = "ok"
       THEN stage' = NextStage(stage) /\ step' = "enter"
       ELSE stage' = "raised" /\ step' = "-"
    /\ UNCHANGED <<playwright, browsers_open, files_open, write_failures, todo,
                   collected, p6_exc, sheet, auth_failed_at, record_failures>>
    /\ UNCHANGED <<retryVars, clientVars, sessionVars, pageVars, reconVars, pureVars>>

\* run() looks for the workbook and opens it with pd.ExcelFile; without a
\* workbook, or when opening raises, both web frames stay None.
LoadOpen(out) ==
    /\ stage = "load"
    /\ step = "enter"
    /\ IF out = "ok"
       THEN files_open' = files_open + 1 /\ step' = "read" /\ UNCHANGED stage
       ELSE stage' = NextStage(stage) /\ step' = "enter" /\ UNCHANGED files_open
    /\ UNCHANGED <<playwright, browsers_open, write_failures, todo, collected,
                   p6_exc, sheet, auth_failed_at, record_failures>>
    /\ UNCHANGED <<retryVars, clientVars, sessionVars, pageVars, reconVars, pureVars>>

\* The sheets are read and the with block is left, the handle closed; a
\* sheet that is missing, or not read because a read raised, stays None.
LoadRead(acc, txn) ==
    /\ stage = "load"
    /\ step = "read"
    /\ web_accounts' = acc
    /\ web_transactions' = txn
    /\ files_open' = files_open - 1
    /\ stage' = NextStage(stage)
    /\ step' = "enter"
    /\ UNCHANGED <<api_accounts, api_transactions, report, r_pc, r_error>>
    /\ UNCHANGED <<playwright, browsers_open, write_failures, todo, collected,
                   p6_exc, sheet, auth_failed_at, record_failures>>
    /\ UNCHANGED <<retryVars, clientVars, sessionVars, pageVars, pureVars>>

\* What every step of Part 6 inside the with block leaves alone.
InsideSession ==
    /\ stage = "part6"
    /\ UNCHANGED <<stage, playwright, browsers_open, files_open, write_failures, sheet>>
    /\ UNCHANGED <<tok, client, clients_made, clients_open, session, now, callVars>>
    /\ UNCHANGED <<web_accounts, web_transactions>>
    /\ UNCHANGED <<retryVars, sessionVars, pageVars, pureVars>>

\* An exception starts to propagate out of the with block.
RaiseInSession(e, call) ==
    /\ p6_exc' = e
    /\ auth_failed_at' = IF e = "APIAuthenticationError" THEN call ELSE auth_failed_at
    /\ step' = "exit"

\* with AltoroAPI(...) as api: __init__ and __enter__
P6Enter ==
    /\ stage = "part6"
    /\ step = "enter"
    /\ session = "new"
    /\ session' = "entered"
    /\ client' = "open"
    /\ clients_made' = clients_made + 1
    /\ clients_open' = clients_open + 1
    /\ step' = "authenticate"
    /\ UNCHANGED <<tok, now, callVars>>
    /\ UNCHANGED <<stage, playwright, browsers_open, files_open, write_failures,
                   todo, collected, p6_exc, sheet, auth_failed_at, record_failures>>
    /\ UNCHANGED <<retryVars, sessionVars, pageVars, reconVars, pureVars>>

\* api.authenticate()
P6Authenticate(out) ==
    /\ step = "authenticate"
    /\ IF out = "ok"
       THEN step' = "accounts" /\ UNCHANGED <<p6_exc, auth_failed_at>>
       ELSE RaiseInSession(out, "authenticate")
    /\ UNCHANGED <<todo, collected, record_failures>>
    /\ UNCHANGED <<api_accounts, api_transactions, report, r_pc, r_error>>
    /\ InsideSession

\* _retrieve_api_accounts, Step A: api.accounts() and its except clauses.
P6Accounts(out, accounts_list) ==
    /\ step = "accounts"
    /\ IF out = "ok"
       THEN /\ todo' = accounts_list
            /\ step' = "details"
            /\ UNCHANGED <<p6_exc, auth_failed_at, api_accounts>>
       ELSE IF AccountsExcept(out) = "empty"
       THEN /\ api_accounts' = EmptyFrame
            /\ todo' = <<>>
            /\ step' = "transactions"
            /\ UNCHANGED <<p6_exc, auth_failed_at>>
       ELSE /\ RaiseInSession(out, "accounts")
            /\ UNCHANGED <<todo, api_accounts>>
    /\ UNCHANGED <<collected, record_failures>>
    /\ UNCHANGED <<api_transactions, report, r_pc, r_error>>
    /\ InsideSession

\* _retrieve_api_accounts, Step B, one pass of the loop: the entry is
\* skipped, or its details are fetched and a row, or the placeholder row, is
\* appended.  body is how the details carry the balances: as money text, or
\* as JSON numbers, on which parse_money raises AttributeError.
P6Details(out, body) ==
    /\ step = "details"
    /\ todo # <<>>
    /\ LET account == Head(todo)
           account_id == account.id
       IN  IF account.kind \notin {"str", "dict"} \/ account_id = ""
           THEN /\ out = "ok" /\ body = "text"
                /\ record_failures' = record_failures \cup {"account skipped"}
                /\ todo' = Tail(todo)
                /\ UNCHANGED <<collected, step, p6_exc, auth_failed_at>>
           ELSE IF out = "ok" /\ body = "text"
           THEN /\ collected' = Append(collected, ApiAccountRow(account_id, 100000))
                /\ todo' = Tail(todo)
                /\ UNCHANGED <<step, p6_exc, auth_failed_at, record_failures>>
           ELSE IF out = "ok"
           THEN /\ record_failures' = record_failures \cup {"details malformed"}
                /\ RaiseInSession("AttributeError", "details")
                /\ UNCHANGED <<todo, collected>>
           ELSE IF RecordExcept(out) = "substitute"
           THEN /\ body = "text"
                /\ collected' = Append(collected, PlaceholderRow(account_id))
                /\ record_failures' = record_failures \cup {"details failed"}
                /\ todo' = Tail(todo)
                /\ auth_failed_at' = IF out = "APIAuthenticationError"
                                     THEN "details" ELSE auth_failed_at
                /\ UNCHANGED <<step, p6_exc>>
           ELSE /\ body = "text"
                /\ record_failures' =
                       IF out = "APIAuthenticationError" THEN record_failures
                       ELSE record_failures \cup {"details failed"}
                /\ RaiseInSession(out, "details")
                /\ UNCHANGED <<todo, collected>>
    /\ UNCHANGED <<api_accounts, api_transactions, report, r_pc, r_error>>
    /\ InsideSession

\* The end of _retrieve_api_accounts and the start of
\* _retrieve_api_transactions: df_accounts, and the loop over its rows.
P6DetailsDone ==
    /\ step = "details"
    /\ todo = <<>>
    /\ api_accounts' = FrameOf(collected)
    /\ todo' = [i \in 1..Len(collected) |-> collected[i].account_id[2]]
    /\ collected' = <<>>
    /\ step' = "transactions"
    /\ UNCHANGED <<p6_exc, auth_failed_at, record_failures>>
    /\ UNCHANGED <<api_transactions, report, r_pc, r_error>>
    /\ InsideSession

\* _retrieve_api_transactions, one pass of the loop: the transactions of the
\* account are fetched and appended, strings skipped, or the account is
\* skipped after a failure.
P6Transactions(out, transactions) ==
    /\ step = "transactions"
    /\ todo # <<>>
    /\ LET account_id == Head(todo)
           rows == SelectSeq(transactions, LAMBDA txn : txn = "dict")
           Row(i) == ApiTxnRow(account_id, Len(collected) + i,
                               <<Num(0), Num(100000)>>)
       IN  IF out = "ok" /\ \A i \in 1..Len(transactions) : transactions[i] # "number"
           THEN /\ collected' = collected \o [i \in 1..Len(rows) |-> Row(i)]
                /\ record_failures' =
                       IF \E i \in 1..Len(transactions) : transactions[i] = "str"
                       THEN record_failures \cup {"transaction skipped"}
                       ELSE record_failures
                /\ todo' = Tail(todo)
                /\ UNCHANGED <<step, p6_exc, auth_failed_at>>
           ELSE IF out = "ok"
           THEN /\ record_failures' = record_failures \cup {"transaction malformed"}
                /\ RaiseInSession("AttributeError", "transactions")
                /\ UNCHANGED <<todo, collected>>
           ELSE IF RecordExcept(out) = "substitute"
           THEN /\ transactions = <<>>
                /\ record_failures' = record_failures \cup {"transactions failed"}
                /\ todo' = Tail(todo)
                /\ auth_failed_at' = IF out = "APIAuthenticationError"
                                     THEN "transactions" ELSE auth_failed_at
                /\ UNCHANGED <<collected, step, p6_exc>>
           ELSE /\ transactions = <<>>
                /\ record_failures' =
                       IF out = "APIAuthenticationError" THEN record_failures
                       ELSE record_failures \cup {"transactions failed"}
                /\ RaiseInSession(out, "transactions")
                /\ UNCHANGED <<todo, collected>>
    /\ UNCHANGED <<api_accounts, api_transactions, report, r_pc, r_error>>
    /\ InsideSession

\* The end of _retrieve_api_transactions: df_transactions.
P6TransactionsDone ==
    /\ step = "transactions"
    /\ todo = <<>>
    /\ api_transactions' = FrameOf(collected)
    /\ collected' = <<>>
    /\ step' = "reconcile"
    /\ UNCHANGED <<todo, p6_exc, auth_failed_at, record_failures>>
    /\ UNCHANGED <<api_accounts, report, r_pc, r_error>>
    /\ InsideSession

\* _perform_reconciliation on what was retrieved and what run() loaded.
P6Reconcile ==
    /\ step = "reconcile"
    /\ LET res == PerformReconciliation(api_accounts, api_transactions,
                                        web_accounts, web_transactions)
       IN  /\ r_pc' = IF res.err = "" THEN "returned" ELSE "raised"
           /\ r_error' = res.err
           /\ report' = res.report
           /\ p6_exc' = res.err
    /\ step' = "exit"
    /\ UNCHANGED <<todo, collected, auth_failed_at, record_failures>>
    /\ UNCHANGED <<api_accounts, api_transactions>>
    /\ InsideSession

\* __exit__ of the with block, reached by its end or by an exception, which
\* it does not suppress.
P6Exit ==
    /\ stage = "part6"
    /\ step = "exit"
    /\ session' = "exited"
    /\ CloseClient
    /\ step' = IF p6_exc = "" THEN "write" ELSE "handler"
    /\ UNCHANGED <<tok, now, callVars>>
    /\ UNCHANGED <<stage, playwright, browsers_open, files_open, write_failures,
                   todo, collected, p6_exc, sheet, auth_failed_at, record_failures>>
    /\ UNCHANGED <<retryVars, sessionVars, pageVars, reconVars, pureVars>>

\* _write_excel_report: the sheet is written, or the workbook raises.
P6WriteReport(ok) ==
    /\ stage = "part6"
    /\ step = "write"
    /\ IF ok
       THEN /\ sheet' = "reconciliation"
            /\ stage' = NextStage(stage)
            /\ step' = "-"
            /\ UNCHANGED <<p6_exc, write_failures>>
       ELSE /\ p6_exc' = "OSError"
            /\ write_failures' = write_failures \cup {"reconciliation"}
            /\ step' = "handler"
            /\ UNCHANGED <<sheet, stage>>
    /\ UNCHANGED <<playwright, browsers_open, files_open, todo, collected,
                   auth_failed_at, record_failures>>
    /\ UNCHANGED <<retryVars, clientVars, sessionVars, pageVars, reconVars, pureVars>>

\* The except clauses of run_part6_api_validate: each calls
\* _write_api_unavailable_report, which logs and swallows a failure of its
\* own write, and returns.
P6Handler(ok) ==
    /\ stage = "part6"
    /\ step = "handler"
    /\ IF Handled(p6_exc)
       THEN /\ sheet' = IF ok THEN "unavailable" ELSE sheet
            /\ write_failures' = IF ok THEN write_failures
                                 ELSE write_failures \cup {"unavailable"}
            /\ stage' = NextStage(stage)
       ELSE /\ ok
            /\ stage' = "raised"
            /\ UNCHANGED <<sheet, write_failures>>
    /\ step' = "-"
    /\ UNCHANGED <<playwright, browsers_open, files_open, todo, collected,
                   p6_exc, auth_failed_at, record_failures>>
    /\ UNCHANGED <<retryVars, clientVars, sessionVars, pageVars, reconVars, pureVars>>

PipeNext ==
    \/ \E out \in {"ok", "launch_raises", "context_raises"} : BrowserEnter(out)
    \/ \E out \in {"ok", "body_raises", "trace_raises"} : BrowserLeave(out)
    \/ \E out \in {"ok", "raises"} : PartPost(out)
    \/ \E out \in {"ok", "missing", "raises"} : LoadOpen(out)
    \/ \E acc \in LoadedWebAccounts, txn \in LoadedWebTransactions : LoadRead(acc, txn)
    \/ P6Enter
    \/ \E out \in {"ok"} \cup ApiFailures : P6Authenticate(out)
    \/ \E out \in {"ok"} \cup ApiFailures, l \in AccountLists : P6Accounts(out, l)
    \/ \E out \in {"ok"} \cup ApiFailures, body \in {"text", "number"} :
           P6Details(out, body)
    \/ P6DetailsDone
    \/ \E out \in {"ok"} \cup ApiFailures, l \in TransactionLists : P6Transactions(out, l)
    \/ P6TransactionsDone
    \/ P6Reconcile
    \/ P6Exit
    \/ \E ok \in BOOLEAN : P6WriteReport(ok)
    \/ \E ok \in BOOLEAN : P6Handler(ok)

----------------------------------------------------------------------------
(* Pure functions applied to drawn arguments *)

\* A rule list whose first rule is more specific than its second.
NameRules ==
    << [keywords |-> <<ColumnText("account"), ColumnText("id")>>, target |-> "account_id"],
       [keywords |-> <<ColumnText("account")>>, target |-> "account_name"] >>

\* A JSON array, and JSON null (also the value of dict.get for an absent key).
JsonArray(items) == [json |-> "array", items |-> items]
JsonNull == [json |-> "null", items |-> <<>>]

TransactionKeys == <<"transactions", "lastTenTransactions", "Transactions">>

\* r.json(): an object with any of the three keys, each holding null or an
\* array; a bare array; or another JSON value.
TransactionResponses ==
    LET Values == {JsonNull, JsonArray(<<>>), JsonArray(<<"t1">>), JsonArray(<<"t2">>)}
        Keys == {TransactionKeys[k] : k \in 1..Len(TransactionKeys)}
    IN  {[json |-> "object", fields |-> f] :
            f \in UNION {[ks -> Values] : ks \in SUBSET Keys}}
        \cup {JsonArray(l) : l \in {<<>>, <<"t1">>, <<"t1", "t2">>}}
        \cup {[json |-> "number", items |-> <<>>]}

\* bool(v) of a JSON null or array
Truthy(v) == v.json = "array" /\ v.items # <<>>

\* The unwrapping at the end of transactions(): a or b or c or [] on the
\* three keys of an object, the array itself, [] for anything else.
UnwrapTransactions(response) ==
    IF response.json = "object"
    THEN LET Field(k) == IF k \in DOMAIN response.fields
                         THEN response.fields[k] ELSE JsonNull
         IN  IF Truthy(Field("transactions")) THEN Field("transactions")
             ELSE IF Truthy(Field("lastTenTransactions"))
             THEN Field("lastTenTransactions")
             ELSE IF Truthy(Field("Transactions")) THEN Field("Transactions")
             ELSE JsonArray(<<>>)
    ELSE IF response.json = "array" THEN response
    ELSE JsonArray(<<>>)

\* The decimal digits, and int(c) of one of them.
DecimalDigits == <<"0", "1", "2", "3", "4", "5", "6", "7", "8", "9">>

IsDigit(c) == \E i \in 1..Len(DecimalDigits) : DecimalDigits[i] = c

DigitOf(c) == (CHOOSE i \in 1..Len(DecimalDigits) : DecimalDigits[i] = c) - 1

\* str.strip() on text whose only whitespace is " "
RECURSIVE StripText(_)
StripText(s) ==
    IF s = <<>> THEN s
    ELSE IF Head(s) = " " THEN StripText(Tail(s))
    ELSE IF s[Len(s)] = " " THEN StripText(SubSeq(s, 1, Len(s) - 1))
    ELSE s

\* re.sub(r"[^0-9.\-]", "", amount_str)
NumericOnly(s) == SelectSeq(s, LAMBDA c : IsDigit(c) \/ c \in {".", "-"})

\* The value of a run of digits.
RECURSIVE DigitsValue(_)
DigitsValue(s) ==
    IF s = <<>> THEN 0
    ELSE 10 * DigitsValue(SubSeq(s, 1, Len(s) - 1)) + DigitOf(s[Len(s)])

\* float(s) for s made of digits, "." and "-", in hundredths (the texts
\* drawn carry at most two decimals): an optional leading "-", then digits
\* with at most one "." among them; anything else is a ValueError.
Float(s) ==
    LET neg == s # <<>> /\ Head(s) = "-"
        body == IF neg THEN Tail(s) ELSE s
        dots == {i \in 1..Len(body) : body[i] = "."}
        p == IF dots = {} THEN Len(body) + 1 ELSE CHOOSE i \in dots : TRUE
        int == SubSeq(body, 1, p - 1)
        frac == SubSeq(body, p + 1, Len(body))
        valid == /\ Cardinality(dots) <= 1
                 /\ \A i \in 1..Len(body) : body[i] # "-"
                 /\ Len(int) + Len(frac) >= 1
        hundredths == IF frac = <<>> THEN 0
                      ELSE IF Len(frac) = 1 THEN 10 * DigitOf(frac[1])
                      ELSE 10 * DigitOf(frac[1]) + DigitOf(frac[2])
        value == 100 * DigitsValue(int) + hundredths
    IN  IF valid THEN [err |-> "", value |-> IF neg THEN -value ELSE value]
        ELSE [err |-> "ValueError", value |-> 0]

\* parse_money(amount_str), in hundredths
ParseMoney(amount_str) ==
    IF amount_str = <<>> THEN [err |-> "", value |-> 0]
    ELSE LET stripped == StripText(amount_str)
             is_negative == /\ stripped # <<>>
                            /\ Head(stripped) = "("
                            /\ stripped[Len(stripped)] = ")"
             numeric_only == NumericOnly(stripped)
             amount == IF numeric_only # <<>> THEN Float(numeric_only)
                       ELSE [err |-> "", value |-> 0]
         IN  IF amount.err # "" THEN amount
             ELSE [err |-> "", value |-> IF is_negative THEN -amount.value
                                         ELSE amount.value]

\* Money as the pages and the API print it: the digits of an amount with
\* their thousands separator, and the amount in hundredths.
AmountTexts ==
    { [text |-> <<"0", ".", "0", "0">>, value |-> 0],
      [text |-> <<"5">>, value |-> 500],
      [text |-> <<"1", "0", "0", ".", "0", "0">>, value |-> 10000],
      [text |-> <<"1", ",", "2", "3", "4", ".", "5", "6">>, value |-> 123456] }

\* The texts drawn for parse_money: an amount with or without "$", a
\* leading "-", enclosing parentheses and surrounding blanks; and "".
MoneyTexts ==
    { [text |-> (IF pad THEN <<" ">> ELSE <<>>)
                \o (IF paren THEN <<"(">> ELSE <<>>)
                \o (IF minus THEN <<"-">> ELSE <<>>)
                \o (IF symbol THEN <<"$">> ELSE <<>>)
                \o a.text
                \o (IF paren THEN <<")">> ELSE <<>>)
                \o (IF pad THEN <<" ">> ELSE <<>>),
       paren |-> paren, minus |-> minus, value |-> a.value] :
          a \in AmountTexts, pad \in BOOLEAN, paren \in BOOLEAN,
          minus \in BOOLEAN, symbol \in BOOLEAN }
    \cup {[text |-> <<>>, paren |-> FALSE, minus |-> FALSE, value |-> 0]}

\* The record read_transactions makes of one table row, from its Action
\* and Amount cells (amounts in hundredths).
ReadTransactionRow(action, amount_str) ==
    LET amount == ParseMoney(amount_str)
    IN  IF amount.err # "" THEN [err |-> amount.err, amount |-> 0, debit |-> 0, credit |-> 0]
        ELSE IF action = "Withdrawal" \/ amount.value < 0
        THEN [err |-> "", amount |-> amount.value, debit |-> Abs(amount.value),
              credit |-> 0]
        ELSE [err |-> "", amount |-> amount.value, debit |-> 0,
              credit |-> Abs(amount.value)]

\* txn.get(key, "0") on a transaction object of the API, whose fields hold
\* money text
MoneyField(txn, key) == IF key \in DOMAIN txn THEN txn[key] ELSE <<"0">>

\* The debit and credit of the record _retrieve_api_transactions makes of
\* one transaction object.
ApiTransactionRow(txn) ==
    LET debit == ParseMoney(MoneyField(txn, "debit"))
        credit == ParseMoney(MoneyField(txn, "credit"))
    IN  IF debit.err # "" THEN [err |-> debit.err, debit |-> 0, credit |-> 0]
        ELSE IF credit.err # "" THEN [err |-> credit.err, debit |-> 0, credit |-> 0]
        ELSE [err |-> "", debit |-> debit.value, credit |-> credit.value]

\* The Action cells of the transactions table.
ActionCells == {"Deposit", "Withdrawal", ""}

\* Transaction objects of the API: debit and credit, each absent or money
\* text of amount 0.00 or 100.00.
ApiTransactionObjects ==
    LET texts == {m.text : m \in {x \in MoneyTexts : x.value \in {0, 10000}}}
    IN  UNION {[ks -> texts] : ks \in SUBSET {"debit", "credit"}}

\* The arguments drawn: two consecutive retries of one wrapped call and
\* their jitter draws; a frame of at most two column names, with one row or
\* none (without columns it is pd.DataFrame()), and a rule list; a response.
PureInit ==
    LET names == <<"Account ID/Number", "Account Name", "Total Balance",
                   "Transaction ID", "Debit">>
        Frame(ks, n) ==
            [cols |-> {names[k] : k \in ks},
             rows |-> IF n = 0 THEN <<>>
                      ELSE << [c \in {names[k] : k \in ks} |->
                                  Num(CHOOSE k \in ks : names[k] = c)] >>]
        frames == {Frame(ks, n) :
                      ks \in {x \in SUBSET (1..Len(names)) : Cardinality(x) <= 2},
                      n \in 0..1}
    IN  /\ \/ /\ h_fn = "backoff"
              /\ h_in \in [attempt : 1..MaxAttempt, jitter : BOOLEAN,
                           u1 : 0..JitterGrid, u2 : 0..JitterGrid]
           \/ /\ h_fn = "normalize"
              /\ h_in \in [df : frames, rules : {AccountRules, FuzzyRules, NameRules}]
           \/ /\ h_fn = "unwrap"
              /\ h_in \in TransactionResponses
           \/ /\ h_fn = "money"
              /\ h_in \in MoneyTexts
           \/ /\ h_fn = "web_txn"
              /\ h_in \in [action : ActionCells, amount : MoneyTexts]
           \/ /\ h_fn = "api_txn"
              /\ h_in \in ApiTransactionObjects
        /\ h_out = <<>>
        /\ h_done = FALSE

\* No pure function is being applied (the other specifications).
PureIdle ==
    /\ h_fn = "none"
    /\ h_in = <<>>
    /\ h_out = <<>>
    /\ h_done = FALSE

\* The waits of attempt and attempt + 1.
ApplyCalculateBackoff ==
    /\ h_fn = "backoff" /\ ~h_done
    /\ h_out' = << CalculateBackoff(h_in.attempt, BACKOFF_FACTOR, MAX_BACKOFF,
                                    h_in.jitter, h_in.u1),
                   CalculateBackoff(h_in.attempt + 1, BACKOFF_FACTOR, MAX_BACKOFF,
                                    h_in.jitter, h_in.u2) >>
    /\ h_done' = TRUE
    /\ UNCHANGED <<h_fn, h_in>>
    /\ UNCHANGED <<retryVars, clientVars, sessionVars, pageVars, reconVars, pipeVars>>

ApplyNormalizeColumnNames ==
    /\ h_fn = "normalize" /\ ~h_done
    /\ h_out' = NormalizeColumnNames(h_in.df, h_in.rules)
    /\ h_done' = TRUE
    /\ UNCHANGED <<h_fn, h_in>>
    /\ UNCHANGED <<retryVars, clientVars, sessionVars, pageVars, reconVars, pipeVars>>

ApplyUnwrapTransactions ==
    /\ h_fn = "unwrap" /\ ~h_done
    /\ h_out' = UnwrapTransactions(h_in)
    /\ h_done' = TRUE
    /\ UNCHANGED <<h_fn, h_in>>
    /\ UNCHANGED <<retryVars, clientVars, sessionVars, pageVars, reconVars, pipeVars>>

ApplyParseMoney ==
    /\ h_fn = "money" /\ ~h_done
    /\ h_out' = ParseMoney(h_in.text)
    /\ h_done' = TRUE
    /\ UNCHANGED <<h_fn, h_in>>
    /\ UNCHANGED <<retryVars, clientVars, sessionVars, pageVars, reconVars, pipeVars>>

ApplyReadTransactionRow ==
    /\ h_fn = "web_txn" /\ ~h_done
    /\ h_out' = ReadTransactionRow(h_in.action, h_in.amount.text)
    /\ h_done' = TRUE
    /\ UNCHANGED <<h_fn, h_in>>
    /\ UNCHANGED <<retryVars, clientVars, sessionVars, pageVars, reconVars, pipeVars>>

ApplyApiTransactionRow ==
    /\ h_fn = "api_txn" /\ ~h_done
    /\ h_out' = ApiTransactionRow(h_in)
    /\ h_done' = TRUE
    /\ UNCHANGED <<h_fn, h_in>>
    /\ UNCHANGED <<retryVars, clientVars, sessionVars, pageVars, reconVars, pipeVars>>

PureNext ==
    \/ ApplyCalculateBackoff
    \/ ApplyNormalizeColumnNames
    \/ ApplyUnwrapTransactions
    \/ ApplyParseMoney
    \/ ApplyReadTransactionRow
    \/ ApplyApiTransactionRow

----------------------------------------------------------------------------
(* Specifications *)

\* A wrapped call starts; the client and the session wrapper are at rest.
InitRetry == RetryInit /\ ClientInit /\ SessionIdle /\ PageInit /\ ReconIdle /\ PipeIdle /\ PureIdle

SpecRetry == InitRetry /\ [][RetryNext]_vars

\* func returns or raises and time.sleep returns: a pass of the loop ends.
SpecRetryFair == SpecRetry /\ WF_retryVars(RetryNext)

\* A fresh AltoroAPI object; no generic or session-wrapped call in progress.
Init == RetryIdle /\ ClientInit /\ SessionIdle /\ PageInit /\ ReconIdle /\ PipeIdle /\ PureIdle

Spec == Init /\ [][Next]_vars

\* A session-wrapped call starts; the API side is at rest.
InitSession ==
    RetryIdle /\ ClientInit /\ SessionInit /\ PageInit /\ ReconIdle /\ PipeIdle /\ PureIdle

SpecSession == InitSession /\ [][SessionNext]_vars

\* One call of run_transfer starts; everything else is at rest.
InitTransfer ==
    RetryIdle /\ ClientInit /\ TransferInit /\ PageInit /\ ReconIdle /\ PipeIdle /\ PureIdle

SpecTransfer == InitTransfer /\ [][TransferNext]_vars

\* One call of _perform_reconciliation on frames the earlier parts can hand
\* it; everything else is at rest.
InitReconcile ==
    RetryIdle /\ ClientInit /\ SessionIdle /\ PageInit /\ ReconInit /\ PipeIdle /\ PureIdle

SpecReconcile == InitReconcile /\ [][ReconNext]_vars

\* One pure function is applied to one drawn argument; everything else is
\* at rest.
InitPure ==
    /\ RetryIdle /\ ClientInit /\ SessionIdle /\ PageInit /\ ReconIdle /\ PipeIdle
    /\ PureInit

SpecPure == InitPure /\ [][PureNext]_vars

\* One execution of run(), from its first part, on a fresh AltoroAPI object.
InitPipeline ==
    /\ RetryIdle /\ ClientInit /\ SessionIdle /\ PageInit /\ ReconIdle /\ PureIdle
    /\ PipeInit

SpecPipeline == InitPipeline /\ [][PipeNext]_vars

\* run() moves to another position: another stage or another step of it.
Advance ==
    /\ stage \notin {"none", "end", "raised"}
    /\ \E g \in {Stages[i] : i \in 1..Len(Stages)} \cup {"raised"},
          s \in {"enter", "body", "post", "read", "authenticate", "accounts",
                 "details", "transactions", "reconcile", "exit", "write",
                 "handler", "-"} :
           stage' = g /\ step' = s

\* run() is sequential code whose calls return: while it has not ended it
\* does not stay at one position for ever.  Every step of PipeNext moves the
\* position or shortens the list a loop works through.
SpecPipelineFair == SpecPipeline /\ WF_<<stage, step>>(Advance)

----------------------------------------------------------------------------
(* Claims about with_api_retry (SpecRetry) *)

\* C1: a wrapped operation that fails with HTTP 400, 401, 403 or 501 is
\* invoked exactly once, no sleep occurs, and the status-specific error is
\* raised: APIAuthenticationError for 401 and 403, plain APIError for 400
\* and 501.
C1_NoRetryStatusSpecificError ==
    \A s \in {400, 401, 403, 501} :
        seen = {<<"HTTPStatusError", s>>} =>
            /\ pc = "raised"
            /\ invocations = 1
            /\ sleeps = 0
            /\ raised.status = s
            /\ raised.type = IF s \in {401, 403}
                             THEN "APIAuthenticationError"
                             ELSE "APIError"

\* C2: when every invocation fails with HTTP 500, the wrapper sleeps once
\* after each of the first max_retries failures and the failure number
\* max_retries + 1 raises MaxRetriesExceededError with attempts =
\* max_retries + 1 and last_error (and cause) the last 500 error.
C2_Status500Exhaustion ==
    (seen = {<<"HTTPStatusError", 500>>} /\ pc # "returned") =>
        /\ pc \in {"loop", "raised"}
        /\ pc = "loop" => (invocations <= max_retries /\ sleeps = invocations)
        /\ pc = "raised" =>
            /\ invocations = max_retries + 1
            /\ sleeps = max_retries
            /\ raised.type = "MaxRetriesExceededError"
            /\ raised.attempts = max_retries + 1
            /\ raised.last_error = invocations
            /\ raised.cause = invocations
            /\ last_exception = RawError("HTTPStatusError", 500, invocations)

\* C2 witness: a call with at least two retries ended by exhaustion on 500.
C2_Witness ==
    /\ seen = {<<"HTTPStatusError", 500>>}
    /\ pc = "raised"
    /\ max_retries >= 2
    /\ invocations = max_retries + 1
    /\ raised.type = "MaxRetriesExceededError"

\* C3: when every invocation fails with a generic transport error (a
\* RequestError that is neither a connect error nor a timeout), the wrapper
\* retries max_retries times and then raises APIConnectionError for the last
\* transport error.
C3_GenericTransportExhaustion ==
    (/\ seen # {}
     /\ seen \subseteq {<<t, 0>> : t \in GenericRequestErrorTypes}
     /\ pc \notin {"loop", "returned"}) =>
        /\ pc = "raised"
        /\ invocations = max_retries + 1
        /\ sleeps = max_retries
        /\ raised.type = "APIConnectionError"
        /\ raised.cause = invocations

----------------------------------------------------------------------------
(* Claims about AltoroAPI (Spec) *)

AuthFailures == {<<"HTTPStatusError", 401>>, <<"HTTPStatusError", 403>>}

\* C4: once a login request of authenticate() is answered 401 or 403, the
\* call is over with APIAuthenticationError caused by that response, no
\* further login request follows, and no token was stored; answered so on
\* its first request, authenticate() made exactly one request and no sleep.
C4_AuthenticationFailureNotRetried ==
    (a_seen \cap AuthFailures # {}) =>
        /\ cpc = "done"
        /\ c_raised.type = "APIAuthenticationError"
        /\ c_raised.status \in {401, 403}
        /\ c_raised.cause = login_requests + data_requests
        /\ ~a_stored
        /\ a_seen \subseteq AuthFailures => (a_requests = 1 /\ a_sleeps = 0)

\* C4 witness: a data operation holding a token refreshes it, the login is
\* answered 403, and the call ends.
C4_Witness ==
    /\ op \in DataOps
    /\ tok # NoToken
    /\ a_seen = {<<"HTTPStatusError", 403>>}
    /\ cpc = "done"
    /\ a_requests = 1

\* C5: each pass of a data operation calls authenticate() exactly when the
\* client holds no token or token.exp - now < 300 at its check, and then
\* before its own request; with a token of exp - now >= 300 the pass sends
\* no login request.  No data request is sent without that check.
C5_AuthenticateExactlyWhenStale ==
    /\ chk.checked =>
        /\ op \in DataOps
        /\ auth_called = (~chk.held \/ chk.left < 300)
        /\ (chk.held /\ chk.left >= 300) => pass_logins = 0
        /\ (auth_called /\ pass_data > 0) => (pass_logins >= 1 /\ a_stored)
    /\ cpc = "login" => pass_data = 0
    /\ data_requests > 0 => chk.checked

\* C5 witness: a held token within the buffer is refreshed and the data
\* request is then sent and answered.
C5_Witness ==
    /\ chk.checked
    /\ chk.held
    /\ chk.left < 300
    /\ auth_called
    /\ pass_data = 1
    /\ cpc = "done"
    /\ c_raised = NoExc

\* C6 (as claimed): a token is usable only while now < exp - 300, strictly,
\* so a data request sent without re-authentication had now < exp - 300 at
\* the freshness check; a token created at t0 (exp = t0 + 3600) is expired
\* at t0 + 3301 and valid at t0 + 3000.
C6_UsableStrictlyBeforeBuffer ==
    /\ (tok # NoToken /\ ~IsTokenExpired(tok, now)) => now < tok.exp - 300
    /\ (pass_data > 0 /\ ~auth_called) => (chk.held /\ chk.left > 300)
    /\ (tok # NoToken /\ now = (tok.exp - 3600) + 3301) => IsTokenExpired(tok, now)
    /\ (tok # NoToken /\ now = (tok.exp - 3600) + 3000) => ~IsTokenExpired(tok, now)

\* C6 (amended): a token is usable exactly while now <= exp - 300, so a data
\* request sent without re-authentication had exp - now >= 300 at the
\* freshness check; a token created at t0 (exp = t0 + 3600) is expired at
\* t0 + 3301, valid at t0 + 3000 and still valid at t0 + 3300.
C6_UsableUntilBuffer ==
    /\ tok # NoToken => (~IsTokenExpired(tok, now) <=> now <= tok.exp - 300)
    /\ (pass_data > 0 /\ ~auth_called) => (chk.held /\ chk.left >= 300)
    /\ (tok # NoToken /\ now = (tok.exp - 3600) + 3301) => IsTokenExpired(tok, now)
    /\ (tok # NoToken /\ now = (tok.exp - 3600) + 3000) => ~IsTokenExpired(tok, now)

\* C6 witness: a data request is sent with the token exactly 300 s before
\* its expiry at the freshness check.
C6_Witness ==
    /\ chk.checked
    /\ chk.held
    /\ chk.left = 300
    /\ ~auth_called
    /\ pass_data = 1

----------------------------------------------------------------------------
(* Claims about with_session_retry (SpecSession) *)

\* C7: the initial try is not counted against max_retries: a method that
\* fails every time with a session error, each recovery succeeding, is
\* invoked max_retries + 1 times before the wrapper gives up (three times
\* for the default max_retries = 2).
C7_InitialTryNotCounted ==
    (s_pc = "raised" /\ s_clean) =>
        /\ s_invocations = s_max_retries + 1
        /\ s_max_retries = DEFAULT_MAX_RETRIES => s_invocations = 3

\* C8: an error whose lowercased message contains no session keyword is
\* re-raised, the same error, at the attempt that raised it: nothing happens
\* after that call of the method (no probe, no re-authentication, no sleep,
\* no further call).
C8_NonSessionErrorReraisedAtOnce ==
    (s_last_exception # NoSErr /\ s_last_exception.msg \in NonSessionMessages) =>
        /\ s_pc = "raised"
        /\ ~s_fallback
        /\ s_raised = s_last_exception
        /\ s_last_exception.seq = s_invocations
        /\ s_last_event = "invoke"
        /\ Len(s_sleeps) = s_invocations - 1
        /\ s_probes <= s_invocations - 1
        /\ s_reauths <= s_invocations - 1

\* C8 witness: after a recovered first attempt, a later attempt raises an
\* error that is no session error.
C8_Witness ==
    /\ s_pc = "raised"
    /\ s_last_exception.msg = <<"c", "a", "n", "n", "o", "t", " ", "p", "a", "r", "s", "e">>
    /\ s_invocations >= 2
    /\ s_reauths >= 1

\* C9: after a session error whose logout probe is true and whose
\* re-authentication succeeds, the wrapper sleeps min(2^attempt, 8) seconds
\* and then invokes the method again, on every attempt 1..max_retries.
C9_RecoveryFollowedByInvocation ==
    s_last_event = "recovered" =>
        /\ s_sleeps[Len(s_sleeps)] = Min(Pow(2, s_attempt), 8)
        /\ s_pc = "loop"
        /\ s_attempt + 1 <= s_max_retries

\* C10: when the final attempt (attempt = max_retries) fails with a session
\* error and the re-authentication raises, the wrapper raises
\* SessionExpiredError whose cause is the error the method raised at that
\* attempt.
C10_FinalReauthFailureRaisesSessionExpired ==
    (s_last_event = "reauth_failed" /\ s_attempt = s_max_retries) =>
        /\ s_pc = "raised"
        /\ ~s_fallback
        /\ s_raised.type = "SessionExpiredError"
        /\ s_last_exception.type = "Error"
        /\ s_last_exception.msg \in SessionMessages
        /\ s_last_exception.seq = s_invocations
        /\ s_raised.cause = s_last_exception.seq

\* C10 witness: the re-authentication raises on the last of at least two
\* attempts.
C10_Witness ==
    /\ s_last_event = "reauth_failed"
    /\ s_attempt = s_max_retries
    /\ s_max_retries >= 2
    /\ s_pc = "raised"

\* C11: when an attempt fails with a session error and the logout probe is
\* inconclusive (not logged out, or no login page configured) or the
\* re-authentication raises, and attempt < max_retries, the wrapper sleeps
\* min(2^attempt, 8) seconds and invokes the method again; it gives up on
\* such a failure only at attempt = max_retries.
C11_InconclusiveRetriedWithBackoff ==
    /\ (s_last_event \in {"retry", "reauth_failed"} /\ s_attempt < s_max_retries) =>
        /\ s_pc = "loop"
        /\ s_last_exception.msg \in SessionMessages
        /\ Len(s_sleeps) = s_attempt
        /\ s_sleeps[Len(s_sleeps)] = Min(Pow(2, s_attempt), 8)
        /\ s_attempt + 1 <= s_max_retries
    /\ (s_pc = "raised" /\ ~s_fallback /\ s_last_exception.msg \in SessionMessages) =>
        s_attempt = s_max_retries

\* C11 witness: the re-authentication raises at the second of three
\* attempts and the wrapper has slept 4 s before the third.
C11_Witness ==
    /\ s_last_event = "reauth_failed"
    /\ s_pc = "loop"
    /\ s_attempt = 2
    /\ s_sleeps[Len(s_sleeps)] = 4

----------------------------------------------------------------------------
(* Claims about both wrappers *)

\* C12: every terminal error raised by with_api_retry or with_session_retry
\* is the error the wrapped operation raised last, or has that error as its
\* cause.
C12_TerminalErrorKeepsOriginal ==
    /\ pc = "raised" =>
        /\ invocations >= 1
        /\ raised.seq = invocations \/ raised.cause = invocations
    /\ s_pc = "raised" =>
        /\ s_invocations >= 1
        /\ s_raised.seq = s_invocations \/ s_raised.cause = s_invocations

----------------------------------------------------------------------------
(* Claims about AccountsPage.run under with_session_retry (SpecSession) *)

\* C13: when run() returns, after any number of attempts cut at any point,
\* accounts_summary and transaction_history hold exactly what one
\* uninterrupted run over the same accounts on a fresh object produces: one
\* entry per account, read in the current login session, nothing stale,
\* partial or duplicated.
C13_RunLeavesWhatOneCleanRunLeaves ==
    s_pc = "returned" =>
        LET clean == RunFrom([summary |-> EmptyDict, history |-> EmptyDict],
                             1, MaxAccounts + 1, FALSE, page_epoch)
        IN  /\ accounts_summary = clean.summary
            /\ transaction_history = clean.history
            /\ DOMAIN accounts_summary = Accounts
            /\ \A a \in Accounts :
                    /\ accounts_summary[a].read_in = page_epoch
                    /\ Len(transaction_history[a]) = 1
                    /\ transaction_history[a][1].read_in = page_epoch

\* C13 witness: run() returns after an attempt that was cut between the two
\* writes of an account and a re-authentication.
C13_Witness ==
    /\ s_pc = "returned"
    /\ half_written
    /\ s_invocations >= 2
    /\ page_epoch >= 2

----------------------------------------------------------------------------
(* Claims about the reconciliation (SpecReconcile) *)

\* C14: match classification is a total three-way partition of the rows of
\* both reconciliation tables: the status is Match iff the variance is not
\* null and |variance| < tolerance (strictly; 0.01 dollars), Data Missing iff
\* the variance is null, which is iff either side is absent, and Variance
\* otherwise.
C14_MatchStatusPartition ==
    r_pc = "returned" =>
        \A t \in {<<report.account_recon, "balance_variance", "balance", "balance_web">>,
                  <<report.transaction_recon, "net_variance", "api_net", "web_net">>} :
            "match_status" \in t[1].cols =>
                \A i \in 1..Len(t[1].rows) :
                    LET row == t[1].rows[i]
                        v == row[t[2]]
                        s == row["match_status"]
                    IN  /\ s \in {Str("Match"), Str("Variance"), Str("Data Missing")}
                        /\ (s = Str("Match")) <=>
                               (v # NaN /\ Abs(v[2]) < VARIANCE_TOLERANCE)
                        /\ (s = Str("Data Missing")) <=> (v = NaN)
                        /\ (v = NaN) <=> (row[t[3]] = NaN \/ row[t[4]] = NaN)
                        /\ (s = Str("Variance")) <=>
                               (v # NaN /\ Abs(v[2]) >= VARIANCE_TOLERANCE)

\* C14 witness: an account whose balances differ by exactly the tolerance is
\* reported as Variance.
C14_Witness ==
    /\ r_pc = "returned"
    /\ "match_status" \in report.account_recon.cols
    /\ \E i \in 1..Len(report.account_recon.rows) :
           /\ report.account_recon.rows[i]["balance_variance"] = Num(VARIANCE_TOLERANCE)
           /\ report.account_recon.rows[i]["match_status"] = Str("Variance")

\* C15: account reconciliation outer-joins the API table and the web table
\* on the string-coerced account id: the result has a row for every account
\* id of either side, with variance = API balance - web total, null when a
\* side is missing, and the status of that variance (100.00 against 100.00
\* is Match; against 90.00 the variance is 10.00 and the status Variance; no
\* web row gives Data Missing).
C15_AccountOuterJoin ==
    (/\ r_pc # "start"
     /\ web_accounts = NoneFrame \/ web_accounts.cols = WebAccountCols) =>
        LET api_rows == api_accounts.rows
            web_rows == web_accounts.rows
            result == report.account_recon
            RowOf(k, v) ==
                \E i \in 1..Len(result.rows) :
                    /\ result.rows[i]["account_id"] = k
                    /\ result.rows[i]["balance_variance"] = v
                    /\ result.rows[i]["match_status"] = Str(DetermineStatus(v, VARIANCE_TOLERANCE))
        IN  /\ r_pc = "returned"
            /\ \A a \in 1..Len(api_rows), w \in 1..Len(web_rows) :
                   AsTypeStr(web_rows[w]["Account ID/Number"]) = api_rows[a]["account_id"] =>
                       RowOf(api_rows[a]["account_id"],
                             Minus(api_rows[a]["balance"], web_rows[w]["Total Balance"]))
            /\ \A a \in 1..Len(api_rows) :
                   (\A w \in 1..Len(web_rows) :
                        AsTypeStr(web_rows[w]["Account ID/Number"]) # api_rows[a]["account_id"]) =>
                       RowOf(api_rows[a]["account_id"], NaN)
            /\ \A w \in 1..Len(web_rows) :
                   (\A a \in 1..Len(api_rows) :
                        AsTypeStr(web_rows[w]["Account ID/Number"]) # api_rows[a]["account_id"]) =>
                       RowOf(AsTypeStr(web_rows[w]["Account ID/Number"]), NaN)

\* C16: transaction reconciliation joins after aggregation: each side is
\* grouped by account id, summing debit and credit and counting rows, and
\* the aggregates are outer-joined, so the result has exactly one row per
\* account id of either side; the status is that of the net variance
\* (credit - debit) of the API minus (credit - debit) of the web.
C16_JoinAfterAggregation ==
    (/\ r_pc = "returned"
     /\ ~IsEmpty(api_transactions)
     /\ web_transactions # NoneFrame
     /\ ~IsEmpty(web_transactions)
     /\ web_transactions.cols = WebTxnCols) =>
        LET result == report.transaction_recon
            ApiOf(k) == SelectSeq(api_transactions.rows,
                                  LAMBDA r : r["account_id"] = k)
            WebOf(k) == SelectSeq(web_transactions.rows,
                                  LAMBDA r : AsTypeStr(r["Account ID"]) = k)
            ids == {api_transactions.rows[i]["account_id"] :
                        i \in 1..Len(api_transactions.rows)}
                   \cup {AsTypeStr(web_transactions.rows[i]["Account ID"]) :
                        i \in 1..Len(web_transactions.rows)}
            Total(rows, col) == IF rows = <<>> THEN NaN ELSE Num(SumOf(rows, col))
            Rows(rows) == IF rows = <<>> THEN NaN ELSE Num(Len(rows))
        IN  /\ Len(result.rows) = Cardinality(ids)
            /\ \A k \in ids :
                   \E i \in 1..Len(result.rows) :
                       LET row == result.rows[i]
                           net == Minus(Minus(Total(ApiOf(k), "credit"),
                                              Total(ApiOf(k), "debit")),
                                        Minus(Total(WebOf(k), "Credit"),
                                              Total(WebOf(k), "Debit")))
                       IN  /\ row["account_id"] = k
                           /\ row["api_total_debits"] = Total(ApiOf(k), "debit")
                           /\ row["api_total_credits"] = Total(ApiOf(k), "credit")
                           /\ row["api_txn_count"] = Rows(ApiOf(k))
                           /\ row["web_total_debits"] = Total(WebOf(k), "Debit")
                           /\ row["web_total_credits"] = Total(WebOf(k), "Credit")
                           /\ row["web_txn_count"] = Rows(WebOf(k))
                           /\ row["net_variance"] = net
                           /\ row["match_status"] =
                                  Str(DetermineStatus(net, VARIANCE_TOLERANCE))

\* C16 witness: two API transactions and two web transactions of the same
\* account are reconciled in one row.
C16_Witness ==
    /\ r_pc = "returned"
    /\ Len(api_transactions.rows) = 2
    /\ api_transactions.rows[1]["account_id"] = api_transactions.rows[2]["account_id"]
    /\ Len(web_transactions.rows) = 2
    /\ web_transactions.rows[1]["Account ID"] = web_transactions.rows[2]["Account ID"]
    /\ Len(report.transaction_recon.rows) = 1
    /\ report.transaction_recon.rows[1]["api_txn_count"] = Num(2)
    /\ report.transaction_recon.rows[1]["match_status"] = Str("Match")

\* C17: when the API transaction table and the web transaction table are
\* both empty, the transaction reconciliation of the report is exactly one
\* diagnostic row saying that no data was available.
C17_BothEmptyOneDiagnosticRow ==
    (/\ r_pc = "returned"
     /\ IsEmpty(api_transactions)
     /\ IsEmpty(web_transactions)) =>
        /\ Len(report.transaction_recon.rows) = 1
        /\ "Status" \in report.transaction_recon.cols
        /\ report.transaction_recon.rows[1]["Status"] =
               Str("No transaction data available from API or Web")

\* C18: when exactly one of the two transaction tables is empty, the
\* transaction reconciliation of the report is the per-account summary of
\* the side that has data, and its data_source column names the side that
\* was empty.
C18_OneSideEmptyTaggedSummary ==
    (/\ r_pc = "returned"
     /\ IsEmpty(api_transactions) # IsEmpty(web_transactions)
     /\ web_transactions = NoneFrame \/ web_transactions.cols = WebTxnCols) =>
        LET result == report.transaction_recon
            side == IF IsEmpty(api_transactions) THEN web_transactions
                    ELSE api_transactions
            key == IF IsEmpty(api_transactions) THEN "Account ID" ELSE "account_id"
            tag == IF IsEmpty(api_transactions) THEN Str("Web Only (API Empty)")
                   ELSE Str("API Only (Web Empty)")
        IN  /\ result.cols = {"account_id", "total_debits", "total_credits",
                              "transaction_count", "net_amount", "data_source"}
            /\ {result.rows[i]["account_id"] : i \in 1..Len(result.rows)} =
                   {AsTypeStr(side.rows[i][key]) : i \in 1..Len(side.rows)}
            /\ \A i \in 1..Len(result.rows) : result.rows[i]["data_source"] = tag

\* C19: in either flow, when the join column account_id is absent on a side
\* after normalization, the result is exactly one diagnostic row that names
\* the malformed side and the missing column, and nothing is raised.
C19_MissingJoinColumnOneDiagnosticRow ==
    LET OneDiagnostic(df) == Len(df.rows) = 1 /\ "Status" \in df.cols
        HasRows(df) == df # NoneFrame /\ ~IsEmpty(df)
    IN  /\ (/\ r_pc # "start"
            /\ HasRows(web_accounts)
            /\ \/ "account_id" \notin api_accounts.cols
               \/ "Account ID/Number" \notin web_accounts.cols) =>
               /\ r_pc = "returned"
               /\ OneDiagnostic(report.account_recon)
        /\ (/\ r_pc = "returned"
            /\ HasRows(web_transactions)
            /\ ~IsEmpty(api_transactions)
            /\ "Account ID" \notin web_transactions.cols) =>
               /\ OneDiagnostic(report.transaction_recon)
               /\ report.transaction_recon.rows[1]["Status"] =
                      Str("Error: Web data malformed")
               /\ report.transaction_recon.rows[1]["Details"] =
                      Str("Missing account_id column")

\* C20: for every combination of API and web tables, empty, filled or
\* lacking expected columns, the reconciliation step returns its report and
\* raises nothing.
C20_ReconciliationNeverRaises ==
    r_pc # "start" => (r_pc = "returned" /\ r_error = "")

C26_NoTokenAfterExit ==
    session = "exited" => tok = NoToken

\* C28: the wait before a retry, min(backoff_factor^(attempt-1), max_backoff)
\* plus a jitter of at most a tenth of it, does not decrease from one attempt
\* to the next while it is below max_backoff, whatever the jitter draws, and
\* never exceeds 1.1 * max_backoff.
C28_BackoffMonotoneAndCapped ==
    (h_fn = "backoff" /\ h_done) =>
        LET Wait(n) == 100 * Min(Pow(BACKOFF_FACTOR, n - 1), MAX_BACKOFF)
            n == h_in.attempt
        IN  /\ Wait(n) <= Wait(n + 1)
            /\ Wait(n) < 100 * MAX_BACKOFF => h_out[1] <= h_out[2]
            /\ Wait(n) <= h_out[1]
            /\ 10 * h_out[1] <= 11 * Wait(n)
            /\ 10 * h_out[1] <= 11 * 100 * MAX_BACKOFF
            /\ ~h_in.jitter => h_out[1] = Wait(n)

\* C28 witness: the fifth wait with the largest jitter, 17.6 s, is followed by
\* the capped sixth wait of 32 s without jitter.
C28_Witness ==
    /\ h_fn = "backoff" /\ h_done
    /\ h_in.attempt = 5 /\ h_in.jitter
    /\ h_in.u1 = JitterGrid /\ h_in.u2 = 0
    /\ h_out = <<1760, 3200>>

\* C29: the normalizer renames each column to the target of the first rule,
\* in list order, all of whose keywords are substrings of the lowercased
\* name; a column no rule matches keeps its name; every cell is kept; a frame
\* without columns or rows comes back without error.  The rule
\* ({account, id} -> account_id) renames "Account ID/Number" and leaves
\* "Account Name".
C29_FirstRuleWithAllKeywords ==
    (h_fn = "normalize" /\ h_done) =>
        LET df == h_in.df
            rules == h_in.rules
            All(c, k) == \A j \in 1..Len(rules[k].keywords) :
                             Contains(Lower(ColumnText(c)), rules[k].keywords[j])
            Target(c) ==
                IF \E k \in 1..Len(rules) : All(c, k)
                THEN rules[CHOOSE k \in 1..Len(rules) :
                               All(c, k) /\ \A j \in 1..(k - 1) : ~All(c, j)].target
                ELSE c
        IN  /\ h_out.cols = {Target(c) : c \in df.cols}
            /\ Len(h_out.rows) = Len(df.rows)
            /\ \A i \in 1..Len(df.rows) : \A c \in df.cols :
                   h_out.rows[i][Target(c)] = df.rows[i][c]
            /\ df.cols = {} => h_out = df
            /\ rules[1].keywords = <<ColumnText("account"), ColumnText("id")>> =>
                   /\ "Account ID/Number" \in df.cols => "account_id" \in h_out.cols
                   /\ "Account ID/Number" \notin h_out.cols
            /\ ("Account Name" \in df.cols /\ rules \in {AccountRules, FuzzyRules}) =>
                   "Account Name" \in h_out.cols

\* C29 witness: "Account ID/Number" matches both rules of a list and takes
\* the target of the first, next to "Account Name", which only the second
\* rule matches.
C29_Witness ==
    /\ h_fn = "normalize" /\ h_done
    /\ h_in.rules = NameRules
    /\ h_in.df.cols = {"Account ID/Number", "Account Name"}
    /\ Len(h_in.df.rows) = 1
    /\ h_out.cols = {"account_id", "account_name"}
    /\ h_out.rows[1]["account_id"] = h_in.df.rows[1]["Account ID/Number"]

\* C30: for an object response transactions() returns the value of the
\* first field present, in the order transactions, lastTenTransactions,
\* Transactions, and the empty list when none is present; a bare array is
\* returned unchanged.
C30_FirstFieldPresent ==
    (h_fn = "unwrap" /\ h_done) =>
        /\ h_in.json = "object" =>
               LET present == {k \in 1..Len(TransactionKeys) :
                                  TransactionKeys[k] \in DOMAIN h_in.fields}
                   first == CHOOSE k \in present : \A j \in present : k <= j
               IN  h_out = IF present = {} THEN JsonArray(<<>>)
                           ELSE h_in.fields[TransactionKeys[first]]
        /\ h_in.json = "array" => h_out = h_in

C22_RecordFailureConfined ==
    (/\ stage = "end"
     /\ record_failures # {}
     /\ auth_failed_at = ""
     /\ write_failures = {}) => sheet = "reconciliation"

C24_ScopedResourcesReleased ==
    /\ session = "exited" => (client = "none" /\ clients_open = 0)
    /\ (stage = "part6" /\ step \in {"write", "handler"}) => session = "exited"
    /\ stage \in {"end", "raised"} => clients_open = 0
    /\ (stage \notin BrowserParts \/ step \notin {"enter", "body"}) =>
           (browsers_open = 0 /\ playwright # "running")

\* C24 witness: the API with block was left by an exception, after five
\* browser sessions, and the client is closed.
C24_Witness ==
    /\ stage = "part6"
    /\ step = "handler"
    /\ p6_exc = "TypeError"
    /\ session = "exited"
    /\ clients_made = 1
    /\ clients_open = 0
    /\ playwright = "stopped"

\* C27: during run() no two scoped resources are open together: the browser
\* session of a part is released before the next part begins, the workbook
\* handle of the load is closed before Part 6, and the API session is
\* acquired only after every browser session is released.
C27_OneScopedResourceAtATime ==
    /\ browsers_open + files_open + clients_open <= 1
    /\ (stage \in BrowserParts /\ step = "enter") =>
           (browsers_open = 0 /\ playwright # "running")
    /\ stage \notin BrowserParts => (browsers_open = 0 /\ playwright # "running")
    /\ stage = "part6" => files_open = 0
    /\ session # "new" => stage \in {"part6", "end"}

\* C27 witness: the API session is open in Part 6 after the browser sessions
\* of the five parts and the workbook load.
C27_Witness ==
    /\ stage = "part6"
    /\ step = "details"
    /\ clients_open = 1
    /\ browsers_open = 0
    /\ playwright = "stopped"
    /\ web_accounts # NoneFrame

\* C31: parse_money returns the amount printed in the text, without its
\* currency symbol and thousands separators, negative exactly when the text
\* is in parentheses or begins with a minus sign, and 0.0 for "".
C31_ParseMoneySign ==
    (h_fn = "money" /\ h_done) =>
        /\ h_out.err = ""
        /\ h_out.value = IF h_in.paren \/ h_in.minus THEN -h_in.value
                         ELSE h_in.value

\* C32: for every max_retries >= 0 and every sequence of outcomes of the
\* wrapped operation, with_api_retry invokes the operation at most
\* max_retries + 1 times and sleeps at most max_retries times, all retryable
\* classes counting on one attempt counter; the raise after the loop is
\* never reached, and the call ends by returning or by raising from inside
\* the loop.
C32_BoundedAndTerminates ==
    /\ [](/\ invocations <= max_retries + 1
          /\ sleeps <= max_retries
          /\ sleeps <= attempt
          /\ attempt <= invocations
          /\ pc # "fallback")
    /\ <>(pc \in {"returned", "raised"})

\* The retries are used up by errors of all four retryable classes.
C32_Witness ==
    /\ pc = "raised"
    /\ max_retries >= 3
    /\ invocations = max_retries + 1
    /\ sleeps = max_retries
    /\ {<<"HTTPStatusError", 500>>, <<"ConnectError", 0>>, <<"ReadTimeout", 0>>,
        <<"ReadError", 0>>} \subseteq seen

C34_FallbackNeverReached ==
    /\ ~s_fallback
    /\ s_pc \in {"returned", "raised"} => s_invocations >= 1

\* C35: one call of TransferPage.run_transfer submits the transfer form at
\* most once, whatever session errors and recoveries occur during the call.
C35_TransferSubmittedAtMostOnce ==
    transfers <= 1

\* C36: in the transaction reconciliation a row classified Match has API
\* and web totals that agree: its debit variance and its credit variance are
\* each within the tolerance.
C36_MatchMeansTotalsAgree ==
    (r_pc = "returned" /\ "match_status" \in report.transaction_recon.cols) =>
        \A i \in 1..Len(report.transaction_recon.rows) :
            LET row == report.transaction_recon.rows[i]
            IN  row["match_status"] = Str("Match") =>
                    /\ row["debit_variance"] # NaN
                    /\ Abs(row["debit_variance"][2]) < VARIANCE_TOLERANCE
                    /\ row["credit_variance"] # NaN
                    /\ Abs(row["credit_variance"][2]) < VARIANCE_TOLERANCE

\* C37: the stored token changes only in a successful authenticate(): a
\* step that changes it is a login answered with an Authorization field,
\* and stores a token that expires TOKEN_LIFETIME from now; every other
\* step (a failed login, the end of a failed authenticate(), a data request
\* answered 401 or 500 or failing in transport, __exit__) leaves it as it
\* is.  A pass of a data operation that finds the token with
\* exp - now >= 300 goes on to send its request with it.
C37_TokenChangesOnlyOnSuccessfulLogin ==
    [][/\ tok' # tok =>
            /\ cpc = "login"
            /\ cpc' = (IF op = "authenticate" THEN "done" ELSE "request")
            /\ c_raised' = NoExc
            /\ a_stored'
            /\ login_requests' = login_requests + 1
            /\ tok' # NoToken
            /\ tok'.exp = now + TOKEN_LIFETIME
       /\ (cpc = "invoke" /\ cpc' # "invoke" /\ tok # NoToken
              /\ tok.exp - now >= TOKEN_REFRESH_BUFFER) =>
            /\ cpc' = "request"
            /\ ~auth_called'
            /\ tok' = tok
      ]_vars

\* A data call that held a usable token was answered 401 after an earlier
\* call had stored that token, which is still held.
C37_Witness ==
    /\ op \in DataOps
    /\ cpc = "done"
    /\ c_raised.type = "APIAuthenticationError"
    /\ ~auth_called
    /\ pass_data = 1
    /\ tok # NoToken
    /\ tok.exp - now >= TOKEN_REFRESH_BUFFER

\* C38: in run_part6_api_validate the report sheet is written only after
\* the HTTP client of the API session was closed: when the reconciliation
\* report or the "API unavailable" report is about to be written, and ever
\* after a write was made or attempted, the with block has been left and no
\* client is open.
C38_ClientClosedBeforeReportWrite ==
    (\/ stage = "part6" /\ step \in {"write", "handler"}
     \/ sheet # "none"
     \/ write_failures # {}) =>
        /\ session = "exited"
        /\ client = "none"
        /\ clients_open = 0

\* Both writes were made in one run: the reconciliation report failed to be
\* written and the "API unavailable" report was written in its place.
C38_Witness ==
    /\ write_failures = {"reconciliation"}
    /\ sheet = "unavailable"
    /\ clients_made = 1
    /\ clients_open = 0

\* C39: every transaction record built from a source row has debit >= 0 and
\* credit >= 0: a web row carries |amount| in exactly one of the two and 0
\* in the other (debit when the action is Withdrawal or the amount is
\* negative, credit otherwise), and an API row carries its parsed debit and
\* credit fields.
C39_DebitAndCreditNonNegative ==
    /\ (h_fn = "web_txn" /\ h_done /\ h_out.err = "") =>
          /\ h_out.debit >= 0
          /\ h_out.credit >= 0
          /\ IF h_in.action = "Withdrawal" \/ h_out.amount < 0
             THEN h_out.debit = Abs(h_out.amount) /\ h_out.credit = 0
             ELSE h_out.credit = Abs(h_out.amount) /\ h_out.debit = 0
    /\ (h_fn = "api_txn" /\ h_done /\ h_out.err = "") =>
          /\ h_out.debit = ParseMoney(MoneyField(h_in, "debit")).value
          /\ h_out.credit = ParseMoney(MoneyField(h_in, "credit")).value
          /\ h_out.debit >= 0
          /\ h_out.credit >= 0

====
